---- MODULE Spec2Model ----
(***************************************************************************)
(* A model of minecraft-quic-proxy: the proxy loop with its per-packet     *)
(* forwarder tasks (src/src/proxy.rs), the Play-state stream allocator and *)
(* sequence transport (src/src/stream_allocation.rs, src/src/sequence.rs), *)
(* and the session state machines of the client translator and the gateway *)
(* (src/src/client.rs, src/src/gateway.rs, src/src/control_stream.rs).      *)
(* More specifications take one component on its own: SpecRecv the         *)
(* receive half of the three PacketIo endpoints with the codec it decodes  *)
(* with (src/src/proxy.rs, src/src/stream.rs, src/src/protocol),           *)
(* SpecSequences one peer's sequence cache with datagrams arriving in any  *)
(* order and time passing, SpecAllocator one StreamAllocator with its two  *)
(* idle-evicting caches, SpecTranslator the gateway's PacketTranslator     *)
(* (src/src/packet_translation.rs), SpecCodec the two codecs on bytes      *)
(* (src/src/protocol/vanilla_codec.rs, optimized_codec.rs), SpecSendHandle *)
(* and SpecRecvHandle one stream handle with its task (src/src/stream.rs). *)
(* SpecPlayEnd is the Play endpoint with streams that end, SpecEndpoint    *)
(* one endpoint through its state switches, SpecSeqHandle the outbound     *)
(* task of the datagram transport, SpecBlock the packing of block          *)
(* positions, SpecRestart the sequence caches of both peers, and           *)
(* SpecVanilla the session between a game client and a server that keep    *)
(* the Minecraft protocol.                                                 *)
(* SpecProxy and SpecSession take recv_packet by                           *)
(* what the PacketIo trait promises, the packets the remote sent; what the *)
(* implementations do with the codec's read buffer is in SpecRecv.         *)
(*                                                                         *)
(* Scheduling.  A forwarder task is a future: it runs without interruption *)
(* until an await that is really pending (a held lock, a full channel, an  *)
(* I/O operation, a completion).  tokio::sync::Mutex hands the lock over   *)
(* in FIFO order, so a lock is a queue whose head holds it.  Which of the  *)
(* runnable tasks the executor polls next is not fixed by the code: every  *)
(* choice is a step of the model.                                          *)
(***************************************************************************)
EXTENDS Integers, Sequences, FiniteSets, TLC

(* ---------------------------------------------------------------- bounds *)
\* Packets one Proxy takes from its two endpoints in a run of the model.
MaxRecv == 3

\* Write failures of the transports in one run of a Proxy.
MaxFailures == 1

\* Frames and datagrams the remote of a receiving endpoint sends, and the
\* unidirectional streams it opens.
MaxFrames == 2
MaxDatagrams == 2
MaxStreams == 2

\* Datagrams the remote sends on the sequences of a peer, datagrams the peer
\* sends itself, and the seconds one step of the clock takes.
MaxOrdinals == 4
MaxLocalSends == 2
TickSeconds == 60

\* Packets the gateway's translator is given.
MaxTranslations == 4

\* Packets a codec's encoder is given, and the give_data and decode_packet
\* calls made on the decoder at the other end.
MaxEncoded == 2
MaxGives == 3
MaxDecodes == 3

\* send_packet calls made on one send stream handle and its clone.
MaxSends == 6

\* Packets a peer writes on one stream, and recv_packet calls on its handle.
MaxPeerPackets == 2
MaxRecvs == 4
MaxHandleSends == 5

\* Packets a remote sends to one endpoint across its state switches, packets
\* the endpoint sends, and decode_packet calls on it.
MaxRemoteSends == 2
MaxEndpointSends == 2
MaxEndpointDecodes == 3

\* Packets one StreamAllocator is asked about, and the seconds it is watched.
MaxAllocations == 3
MaxSeconds == 180

\* Packets the game client, and the destination server, send in a session.
MaxClientSends == 4
MaxServerSends == 2
MaxVanillaSends == 3
MaxRestartSends == 3

(* ------------------------------------------------------ program constants *)
\* STREAM_IDLE_DURATION, in seconds.
STREAM_IDLE_DURATION == 90

\* SEQUENCE_IDLE_DURATION, in seconds.
SEQUENCE_IDLE_DURATION == 120

\* flume::bounded(4) of a receive handle, flume::bounded(16) of QuicReceiver.
RECV_CHANNEL_CAPACITY == 4

\* The encryption key (16 bytes in the program, one here).
EncryptionKeys == {77}

\* drive_recv_stream's read buffer, in bytes.
RECV_BUFFER == 256
STREAM_RECEIVES_CAPACITY == 16

\* BUFFER_LIMIT, in bytes, and OptimizedCodec's COMPRESSION_THRESHOLD.
BUFFER_LIMIT == 1048576
COMPRESSION_THRESHOLD == 128

\* flume::bounded(4) of a send handle's writer task.
SEND_CHANNEL_CAPACITY == 4
\* flume::bounded(16) of the sequence transport's outbound channel.
SEQUENCE_CHANNEL_CAPACITY == 16

VARIABLES
    (* Proxy<Client, Server, State> and its endpoints *)
    io,                   \* the QUIC endpoint's type
    loopPc,               \* where Proxy::run is
    breakReason,          \* the R of ControlFlow::Break(R) that ended the loop
    tasks,                \* pending_tasks: the forwarders, in spawn order
    joined,               \* forwarders join_next has returned
    entity_positions,     \* PacketTranslator::entity_positions
    allocLock,            \* QuicPacketIo::stream_allocator (Mutex): head holds
    streams,              \* unidirectional send streams, in open_uni order
    entity_streams,       \* StreamAllocator::entity_streams
    block_update_streams, \* StreamAllocator::block_update_streams
    seqChan,              \* SequencesHandle::sender
    sequences,            \* Sequences::sequences (send side)
    datagrams,            \* datagrams handed to Connection::send_datagram
    sendLog,              \* forwarders in the order their frame left on QUIC
    encoded,              \* forwarders in the order send_codec encoded them
    tcpLock,              \* VanillaPacketIo::send_stream (Mutex): head holds
    tcpOut                \* forwarders in the order written to the socket

pvars == <<io, loopPc, breakReason, tasks, joined, entity_positions, allocLock,
           streams, entity_streams, block_update_streams, seqChan, sequences,
           datagrams, sendLog, encoded, tcpLock, tcpOut>>

VARIABLES
    (* one session: a client translator, a gateway and their surroundings *)
    auth,       \* does ConnectTo carry the configured authentication key
    ctl,        \* the control stream: messages in flight each way, and sent
                \* (by the gateway: sent; by the client, in order: log)
    cl,         \* the client translator: ClientHandle::open, then Client
    gw,         \* the gateway: drive_connection
    cStreams,   \* unidirectional streams the client opened, in open order
    gStreams,   \* unidirectional streams the gateway opened, in open order
    net,        \* the two TCP connections and the "configuration" stream
    env,        \* the game client, its host and the destination server
    hist        \* what was accepted, written and decoded so far

svars == <<auth, ctl, cl, gw, cStreams, gStreams, net, env, hist>>

VARIABLES
    (* one component on its own, driven by its surroundings *)
    rcv,        \* a PacketIo endpoint's receive half and the remote's sends
    seq,        \* a peer's Sequences, the datagrams in flight and time
    alloc,      \* a StreamAllocator, its lookups and time
    translator, \* a gateway's PacketTranslator and the packets put to it
    codec,      \* a codec's decoder, the encoder at the other end and the bytes
    sendHandle, \* a SendStreamHandle, its writer task and the calls on it
    recvHandle, \* a RecvStreamHandle, its reader task and the peer's stream
    endpoint,   \* a codec pair across switch_state, and the remote's bytes
    block,      \* a packed block position and what the decoder reads from it
    seqHandle   \* a SequencesHandle's outbound task and the calls on it

uvars == <<rcv, seq, alloc, translator, codec, sendHandle, recvHandle, endpoint, block,
           seqHandle>>

vars == <<pvars, svars, uvars>>

(* --------------------------------------------------------------- packets *)
Entities == {1, 2}

\* enum SequenceKey, two of its values.
SequenceKeys == {<<"EntityPosition", 1>>, <<"EntityVelocity", 1>>}

Pkt(k, i, v) == [kind |-> k, id |-> i, x |-> v]

\* server::login and client::login packets (the gateway's Login proxy).
LoginServerPackets == {Pkt("LoginSuccess", 0, 0), Pkt("SetCompression", 0, 256)}
LoginClientPackets == {Pkt("LoginStart", 0, 0), Pkt("EncryptionResponse", 0, 0),
                       Pkt("LoginAcknowledged", 0, 0)}

\* server::play packets the gateway takes from the destination.
PlayServerPackets ==
    {Pkt("SystemChatMessage", 0, 0), Pkt("KeepAlive", 0, 0),
     Pkt("EntityAnimation", 1, 0), Pkt("EntityAnimation", 2, 0),
     Pkt("SpawnEntity", 1, 0), Pkt("UpdateEntityPosition", 1, 1),
     Pkt("SetEntityVelocity", 1, 0),
     Pkt("BlockUpdate", 0, 0), Pkt("BlockUpdate", 16, 0)}

\* client::play packets the client translator takes from the game client.
PlayClientPackets ==
    {Pkt("ChatMessage", 0, 0), Pkt("ChatCommand", 0, 0), Pkt("KeepAlive", 0, 0),
     Pkt("SetPlayerPosition", 0, 0), Pkt("AcknowledgeConfiguration", 0, 0)}

\* What the QUIC endpoint hands to the loop in Play.
PlayFromGateway == {Pkt("SystemChatMessage", 0, 0), Pkt("KeepAlive", 0, 0)}
PlayFromClient == {Pkt("ChatMessage", 0, 0), Pkt("AcknowledgeConfiguration", 0, 0)}

FromTcp(e) ==
    CASE e = "Single" -> LoginServerPackets
      [] e = "PlayServer" -> PlayServerPackets
      [] e = "PlayClient" -> PlayClientPackets

FromQuic(e) ==
    CASE e = "Single" -> LoginClientPackets
      [] e = "PlayServer" -> PlayFromClient
      [] e = "PlayClient" -> PlayFromGateway

(* --------------------------------------------------- protocol states *)
States == {"Handshake", "Status", "Login", "Configuration", "Play"}

\* A framed packet on a TCP connection or a stream: the state whose catalog
\* encoded it, the variant, and the one field the proxy looks at.
Frame(st, k, v) == [state |-> st, kind |-> k, x |-> v]

\* NextState's discriminants.
STATUS == 1
LOGIN == 2

\* client::<state>::Packet variants the game client may send.
ClientPackets(st) ==
    CASE st = "Handshake" ->
            {Frame(st, "Handshake", STATUS), Frame(st, "Handshake", LOGIN)}
      [] st = "Status" -> {Frame(st, "StatusRequest", 0)}
      [] st = "Login" ->
            {Frame(st, "LoginStart", 0), Frame(st, "EncryptionResponse", 0),
             Frame(st, "LoginAcknowledged", 0)}
      [] st = "Configuration" ->
            {Frame(st, "ClientInformation", 0), Frame(st, "FinishConfiguration", 0)}
      [] OTHER ->
            {Frame(st, "ChatMessage", 0), Frame(st, "AcknowledgeConfiguration", 0)}

\* server::<state>::Packet variants the destination server may send.
ServerPackets(st) ==
    CASE st = "Handshake" -> {}
      [] st = "Status" -> {Frame(st, "StatusResponse", 0)}
      [] st = "Login" ->
            {Frame(st, "LoginSuccess", 0), Frame(st, "SetCompression", 256),
             Frame(st, "SetCompression", -1)}
      [] st = "Configuration" -> {Frame(st, "RegistryData", 0)}
      [] OTHER -> {Frame(st, "KeepAlive", 0)}

\* A decoder of state st given a frame of another state's catalog yields a
\* packet of its own catalog that no interceptor matches.
Decode(st, f) == IF f.state = st THEN f.kind ELSE "Misdecoded"

(* ---------------------------------------------------------- interceptors *)
Continue == "Continue"

\* Interceptors that leave SetCompression alone, or take LoginSuccess for it.
GatewayInterceptBlind(st, side, kind, x) ==
    CASE st = "Login" /\ side = "client" /\ kind = "LoginAcknowledged" -> "FinishLogin"
      [] st = "Login" /\ side = "client" /\ kind = "EncryptionResponse"
            -> "EnableEncryption"
      [] st = "Configuration" /\ side = "client" /\ kind = "FinishConfiguration"
            -> "FinishConfiguration"
      [] st = "Play" /\ side = "client" /\ kind = "AcknowledgeConfiguration"
            -> "ToConfiguration"
      [] OTHER -> "Continue"

GatewayInterceptEager(st, side, kind, x) ==
    IF st = "Login" /\ side = "server" /\ kind = "LoginSuccess"
    THEN "EnableCompression"
    ELSE GatewayInterceptBlind(st, side, kind, x)

\* The closures the gateway hands to Proxy::run in each state: side is the
\* origin of the packet, the result the R of Break(R) or Continue.
GatewayIntercept(st, side, kind, x) ==
    CASE st = "Login" /\ side = "client" /\ kind = "LoginAcknowledged" -> "FinishLogin"
      [] st = "Login" /\ side = "client" /\ kind = "EncryptionResponse"
            -> "EnableEncryption"
      [] st = "Login" /\ side = "server" /\ kind = "SetCompression" /\ x >= 0
            -> "EnableCompression"
      [] st = "Configuration" /\ side = "client" /\ kind = "FinishConfiguration"
            -> "FinishConfiguration"
      [] st = "Play" /\ side = "client" /\ kind = "AcknowledgeConfiguration"
            -> "ToConfiguration"
      [] OTHER -> Continue

\* The closures the client translator hands to Proxy::run in each state.
ClientIntercept(st, side, kind) ==
    CASE st = "Login" /\ side = "client" /\ kind = "EncryptionResponse"
            -> "EnableEncryption"
      [] st = "Login" /\ side = "client" /\ kind = "LoginAcknowledged" -> "Finish"
      [] st = "Configuration" /\ side = "client" /\ kind = "FinishConfiguration"
            -> "FinishConfiguration"
      [] OTHER -> Continue

\* The interceptors of the Proxy under study: the gateway's Login loop over
\* the single-stream endpoint, the gateway's Play loop, the client's Play loop.
Intercept(e, dir, p) ==
    CASE e = "Single" ->
            GatewayIntercept("Login", IF dir = "toTcp" THEN "client" ELSE "server",
                             p.kind, p.x)
      [] e = "PlayServer" ->
            GatewayIntercept("Play", IF dir = "toTcp" THEN "client" ELSE "server",
                             p.kind, p.x)
      [] OTHER ->
            ClientIntercept("Play", IF dir = "toQuic" THEN "client" ELSE "server",
                            p.kind)

(* ------------------------------------------------------------------ maps *)
\* HashMap / Cache: insert and remove on a function with a growing domain.
Range(q) == {q[i] : i \in 1..Len(q)}

Insert(m, k, v) == [j \in DOMAIN m \cup {k} |-> IF j = k THEN v ELSE m[j]]
Remove(m, k) == [j \in DOMAIN m \ {k} |-> m[j]]

(* ------------------------------------------------------ packet translator *)
\* TranslatePacket<side::Server>: the packet sent in place of p (p itself
\* when translate_packet returns None) and the table afterwards.
TranslateServer(pos, p) ==
    CASE p.kind \in {"SpawnEntity", "SpawnExperienceOrb", "TeleportEntity"} ->
            [packet |-> p, positions |-> Insert(pos, p.id, p.x)]
      [] p.kind \in {"UpdateEntityPosition", "UpdateEntityPositionAndRotation"} ->
            IF p.id \notin DOMAIN pos
            THEN [packet |-> p, positions |-> pos]
            ELSE [packet |-> Pkt("TeleportEntity", p.id, pos[p.id] + p.x),
                  positions |-> Insert(pos, p.id, pos[p.id] + p.x)]
      [] p.kind = "RemoveEntities" ->
            [packet |-> p, positions |-> Remove(pos, p.id)]
      [] p.kind = "Respawn" ->
            [packet |-> p, positions |-> <<>>]
      [] OTHER -> [packet |-> p, positions |-> pos]

\* TranslatePacket<side::Client> translates nothing.
TranslatePacket(e, pos, p) ==
    IF e = "PlayServer" THEN TranslateServer(pos, p)
    ELSE [packet |-> p, positions |-> pos]

(* -------------------------------------------------------- stream allocator *)
CHAT == 1
MISC == 2
CHUNKS == 3

\* BlockPosition::chunk
chunk(x) == x % 16

ServerChatFamily ==
    {"ChatSuggestions", "DisguisedChatMessage", "PlayerChatMessage",
     "SystemChatMessage", "BossBar", "ClearTitles", "CommandSuggestions",
     "DeleteMessage", "SetActionBarText", "SetSubtitleText", "SetTitleText",
     "SetTitleAnimationTimes"}
ServerNewStream ==
    {"Particle", "Explosion", "SoundEffect", "StopSound", "SetHealth",
     "KeepAlive", "Ping", "PingResponse"}
ServerChunkFamily ==
    {"UnloadChunk", "ChunkAndLightData", "UpdateLight", "ChunkBatchFinished",
     "ChunkBatchStart", "ChunkBiomes"}
ServerEntityFamily ==
    {"EntityAnimation", "EntityEvent", "HurtAnimation", "SetHeadRotation",
     "EntityEffect", "DamageEvent", "RemoveEntities"}
ServerPositionFamily ==
    {"UpdateEntityRotation", "UpdateEntityPositionAndRotation",
     "UpdateEntityPosition", "TeleportEntity"}

\* entities.len() of a RemoveEntities; a packet that carries one entity id
\* and no list names one entity.
Listed(p) == IF "entities" \in DOMAIN p THEN Len(p.entities) ELSE 1

\* An allocator that puts every packet on the stream of its id's entity.
AllocateServerOnStreams(p) == [type |-> "Entity", key |-> p.id]

\* AllocateStream<side::Server>::allocate_stream_for, before the caches are
\* consulted: which stream or sequence the packet belongs to.
AllocateServer(p) ==
    CASE p.kind \in ServerChatFamily -> [type |-> "Shared", key |-> CHAT]
      [] p.kind \in ServerNewStream -> [type |-> "New", key |-> 0]
      [] p.kind \in ServerChunkFamily -> [type |-> "Shared", key |-> CHUNKS]
      [] p.kind \in {"UpdateSectionBlocks"} -> [type |-> "Block", key |-> p.id]
      [] p.kind = "BlockUpdate" -> [type |-> "Block", key |-> chunk(p.id)]
      [] p.kind \in ServerEntityFamily /\ Listed(p) = 1 ->
            [type |-> "Entity", key |-> p.id]
      [] p.kind \in ServerPositionFamily ->
            [type |-> "Sequence", key |-> <<"EntityPosition", p.id>>]
      [] p.kind = "SetEntityVelocity" ->
            [type |-> "Sequence", key |-> <<"EntityVelocity", p.id>>]
      [] OTHER -> [type |-> "Shared", key |-> MISC]

ClientChatFamily == {"ChatCommand", "ChatMessage", "AcknowledgeMessage"}
ClientNewStream == {"KeepAlive", "PingRequest", "Pong"}

\* An allocator that transmits every packet over the same stream.
AllocateClientOnChat(p) == [type |-> "Shared", key |-> CHAT]

\* AllocateStream<side::Client>::allocate_stream_for
AllocateClient(p) ==
    CASE p.kind \in ClientChatFamily -> [type |-> "Shared", key |-> CHAT]
      [] p.kind \in ClientNewStream -> [type |-> "New", key |-> 0]
      [] OTHER -> [type |-> "Shared", key |-> MISC]

AllocateStreamFor(e, p) ==
    IF e = "PlayServer" THEN AllocateServer(p) ELSE AllocateClient(p)

\* A send stream handle: the writer's channel, the senders waiting for room
\* in it, the frames written, and whether the writer task has ended.
NewStream(name) ==
    [name |-> name, chan |-> <<>>, waiting |-> <<>>, wire |-> <<>>, dead |-> FALSE]

(* ------------------------------------------------------------ forwarders *)
TaskIds == 1..Len(tasks)

SetPc(t, pc) == [tasks EXCEPT ![t].pc = pc]

\* The forwarders whose send returned an error.
Failed == {t \in TaskIds : tasks[t].pc = "failed"}

\* SendStreamHandle::send_packet: send_async on the writer's bounded channel.
\* A sender that finds the channel full waits in arrival order.
Push(strs, s, t) ==
    IF Len(strs[s].chan) < SEND_CHANNEL_CAPACITY
    THEN [strs EXCEPT ![s].chan = Append(@, t)]
    ELSE [strs EXCEPT ![s].waiting = Append(@, t)]

\* SendStreamHandle::send_packet on stream s by forwarder t: with the writer
\* gone, send_async fails, the completion sender is dropped with the message
\* and the await of the completion returns "stream dead".
SendPacket(strs, s, t) ==
    IF strs[s].dead THEN [streams |-> strs, tasks |-> SetPc(t, "failed")]
    ELSE [streams |-> Push(strs, s, t), tasks |-> SetPc(t, "sent")]

(* ------------------------------------------------------ session state *)
\* A unidirectional stream as its opener sees it: the state it was opened
\* for, the frames written and not yet read, whether it was finished, and
\* whether any frame of it (data or FIN) was sent, which is what makes the
\* peer's accept_uni see it and every stream opened before it.
NewUni(st) == [state |-> st, buf |-> <<>>, fin |-> FALSE, touched |-> FALSE]

Known(strs, i) == i <= Len(strs) /\ \E j \in i..Len(strs) : strs[j].touched

WriteUni(strs, i, f) == [strs EXCEPT ![i].buf = Append(@, f), ![i].touched = TRUE]

\* Dropping a send handle ends its writer, which finishes the stream.
FinishUni(strs, i) == [strs EXCEPT ![i].fin = TRUE, ![i].touched = TRUE]

\* SingleQuicPacketIo::switch_state: a stream for the new state is opened,
\* then the old endpoint with its streams is dropped.
SwitchUni(strs, old, st) == Append(FinishUni(strs, old), NewUni(st))

\* QuicPacketIo::new after a single-stream endpoint: StreamAllocator::new
\* opens the chat, misc and chunks streams, then the old endpoint is dropped.
EnterPlayUni(strs, old) ==
    FinishUni(strs, old) \o <<NewUni("Play"), NewUni("Play"), NewUni("Play")>>

ClientStart ==
    [pc |-> "start", st |-> "Handshake", reason |-> Continue, send |-> 0,
     recv |-> {}, acc |-> 0, got |-> {}, keyTaken |-> FALSE, pending |-> <<>>,
     encryption |-> FALSE, compression |-> {}]

GatewayStart ==
    [pc |-> "waitConnectTo", st |-> "Handshake", reason |-> Continue,
     threshold |-> {}, send |-> 0, recv |-> {}, acc |-> 0, bi |-> FALSE,
     key |-> FALSE, pending |-> <<>>, buf |-> <<>>, seen |-> {},
     encryption |-> FALSE, compression |-> {}]

SessionStart(a) ==
    /\ auth = a
    /\ ctl = [c2g |-> <<>>, g2c |-> <<>>, sent |-> {}, log |-> <<>>]
    /\ cl = ClientStart
    /\ gw = GatewayStart
    /\ cStreams = <<>>
    /\ gStreams = <<>>
    /\ net = [gc2t |-> <<>>, t2gc |-> {}, s2gw |-> <<>>, bi |-> {}]
    /\ env = [gcSt |-> "Handshake", srvSt |-> "Handshake", srvEnc |-> FALSE,
              srvComp |-> {}, gcSent |-> 0, srvSent |-> 0, keySet |-> FALSE,
              dest |-> FALSE, local |-> FALSE, finished |-> {}]
    /\ hist = [accepted |-> {}, skipped |-> {}, written |-> {}, decoded |-> {},
               trans |-> {}, sent |-> <<>>, dest |-> <<>>]

(* ----------------------------------------------------------------- Init *)
\* Proxy::new over endpoint e, nothing received yet.
ProxyStart(e) ==
    /\ io = e
    /\ loopPc = "running"
    /\ breakReason = Continue
    /\ tasks = <<>>
    /\ joined = {}
    /\ entity_positions = <<>>
    /\ allocLock = <<>>
    /\ streams = IF io = "Single"
                 THEN <<NewStream("Login")>>
                 ELSE <<NewStream("chat"), NewStream("misc"), NewStream("chunks")>>
    /\ entity_streams = <<>>
    /\ block_update_streams = <<>>
    /\ seqChan = <<>>
    /\ sequences = <<>>
    /\ datagrams = <<>>
    /\ sendLog = <<>>
    /\ encoded = <<>>
    /\ tcpLock = <<>>
    /\ tcpOut = <<>>

\* A PacketIo endpoint of kind e just built, and a remote that has sent
\* nothing.  The TCP endpoint has its socket; QUIC streams appear when the
\* remote writes on them.
RecvStart(e) ==
    rcv = [io |-> e,
           sentOn |-> IF e = "Tcp" THEN << <<>> >> ELSE <<>>,
           fin |-> {},
           wire |-> IF e = "Tcp" THEN << <<>> >> ELSE <<>>,
           read_buffer |-> IF e = "Tcp" THEN << <<>> >> ELSE <<>>,
           driver |-> <<>>,
           recv_data |-> <<>>,
           stream_receives |-> <<>>,
           inbound |-> <<>>,
           frames |-> 0,
           dgrams |-> 0,
           call |-> "none",
           cancelled |-> FALSE,
           returned |-> <<>>]

\* Sequences::new: an empty cache, and nothing sent by either side.
SequencesStart ==
    seq = [sent |-> [k \in SequenceKeys |-> 0],
           flight |-> {},
           sequences |-> <<>>,
           made |-> [k \in SequenceKeys |-> 0],
           delivered |-> <<>>,
           dropped |-> {},
           out |-> <<>>,
           remote |-> [k \in SequenceKeys |-> [idle |-> 0, restarts |-> 0]],
           stamp |-> 0]

\* StreamAllocator::new on the gateway (PlayServer) or the client translator
\* (PlayClient): the chat, misc and chunks streams are open and the two
\* caches are empty.
AllocatorStart(e) ==
    alloc = [side |-> e,
             entity_streams |-> <<>>,
             block_update_streams |-> <<>>,
             opened |-> 3,
             clock |-> 0,
             log |-> <<>>]

\* PacketTranslator::new: no entity's position is known.
TranslatorStart == translator = [entity_positions |-> <<>>, log |-> <<>>]

\* VanillaCodec::new and OptimizedCodec::new: an empty read buffer.  kind is
\* the codec, threshold the CompressionThreshold of a VanillaCodec with
\* compression enabled at both ends and 0 otherwise.
CodecStart(kind, threshold) ==
    codec = [kind |-> kind,
             threshold |-> threshold,
             sent |-> <<>>,
             frames |-> <<>>,
             declared |-> -1,
             inflates |-> 0,
             wire |-> <<>>,
             given |-> 0,
             gives |-> 0,
             read_buffer |-> <<>>,
             calls |-> <<>>]

\* SendStreamHandle::from_stream: an empty channel, a writer task waiting
\* on it, nothing written to the stream and no call made.
SendHandleStart ==
    sendHandle = [chan |-> <<>>,
                  waiting |-> <<>>,
                  writing |-> 0,
                  receiver |-> "open",
                  wire |-> <<>>,
                  calls |-> <<>>]

\* RecvStreamHandle::from_stream: a reader task with a fresh codec about to
\* enter drive_recv_stream, an empty channel, and a peer that has written
\* nothing.
RecvHandleStart ==
    recvHandle = [sent |-> <<>>,
                  wire |-> <<>>,
                  garbled |-> FALSE,
                  fin |-> FALSE,
                  reset |-> FALSE,
                  read_buffer |-> <<>>,
                  driver |-> "decode",
                  recv_data |-> <<>>,
                  returned |-> <<>>]

\* VanillaCodec::new, OptimizedCodec::new: an empty read buffer, and for the
\* native codec no encryption (<<>>) and no compression (threshold 0).
NewCodec == [read_buffer |-> <<>>, encryption_state |-> <<>>, compression_state |-> 0]

\* VanillaPacketIo::new in the Login state (or one OptimizedCodec, as a
\* stream handle has it), and a remote in the same state that has sent
\* nothing.  The two halves of an endpoint share nothing, so a run watches
\* one of them: half is "send" or "recv".
EndpointStart(kind, half) ==
    endpoint = [kind |-> kind,
                half |-> half,
                state |-> "Login",
                send_codec |-> NewCodec,
                recv_codec |-> NewCodec,
                remote |-> [state |-> "Login", encryption_state |-> <<>>,
                            plain |-> <<>>],
                sent |-> <<>>,
                wire |-> <<>>,
                arrived |-> 0,
                calls |-> <<>>,
                switches |-> <<>>,
                written |-> <<>>]

\* The eight bytes of the packed position of (x, y, z), not yet decoded.
BlockStart(x, y, z) ==
    block = [position |-> [x |-> x, y |-> y, z |-> z], decoded |-> <<>>]

\* SequencesHandle::new: the outbound task waits on an empty channel.
SeqHandleStart ==
    seqHandle = [queue |-> <<>>, calls |-> <<>>, task |-> "running", datagrams |-> <<>>]

UnitStart ==
    /\ RecvStart("Tcp")
    /\ SequencesStart
    /\ AllocatorStart("PlayServer")
    /\ TranslatorStart
    /\ CodecStart("Optimized", 0)
    /\ SendHandleStart
    /\ RecvHandleStart
    /\ EndpointStart("Vanilla", "recv")
    /\ BlockStart(0, 0, 0)
    /\ SeqHandleStart

ProxyInit ==
    /\ \E e \in {"Single", "PlayClient", "PlayServer"} : ProxyStart(e)
    /\ SessionStart("good")
    /\ UnitStart


(* ------------------------------------------------------------ Proxy::run *)
\* One arm of the select!: recv_packet on an endpoint returned packet p; the
\* interceptor ran, the forwarder was spawned, and a Break ended the loop.
Recv(dir, p) ==
    /\ loopPc = "running"
    /\ Len(tasks) < MaxRecv
    /\ tasks' = Append(tasks, [dir |-> dir, packet |-> p, pc |-> "spawned"])
    /\ IF Intercept(io, dir, p) = Continue
       THEN UNCHANGED <<loopPc, breakReason>>
       ELSE /\ loopPc' = "draining"
            /\ breakReason' = Intercept(io, dir, p)
    /\ UNCHANGED <<svars, uvars, io, joined, entity_positions, allocLock, streams, entity_streams,
                   block_update_streams, seqChan, sequences, datagrams, sendLog,
                   encoded, tcpLock, tcpOut>>

RecvFromTcp == \E p \in FromTcp(io) : Recv("toQuic", p)

RecvFromQuic == \E p \in FromQuic(io) : Recv("toTcp", p)

\* A recv_packet of the select! returned an error: run returns it at once.
RecvFails ==
    /\ loopPc = "running"
    /\ loopPc' = "failed"
    /\ UNCHANGED <<svars, uvars, io, breakReason, tasks, joined, entity_positions, allocLock, streams,
                   entity_streams, block_update_streams, seqChan, sequences, datagrams,
                   sendLog, encoded, tcpLock, tcpOut>>

\* A join that takes a finished forwarder and does not look at its result.
JoinNextUnchecked ==
    /\ loopPc \in {"running", "draining"}
    /\ \E t \in TaskIds \ joined :
          /\ tasks[t].pc \in {"done", "failed"}
          /\ joined' = joined \cup {t}
    /\ UNCHANGED <<svars, uvars, io, loopPc, breakReason, tasks, entity_positions, allocLock, streams,
                   entity_streams, block_update_streams, seqChan, sequences, datagrams,
                   sendLog, encoded, tcpLock, tcpOut>>

\* pending_tasks.join_next(): the third arm of the select!, and the drain.
\* The result of a finished forwarder is unwrapped with ??, so a failed send
\* makes run return the error, in the loop and in the drain alike.
JoinNext ==
    /\ loopPc \in {"running", "draining"}
    /\ \E t \in TaskIds \ joined :
          /\ tasks[t].pc \in {"done", "failed"}
          /\ joined' = joined \cup {t}
          /\ loopPc' = IF tasks[t].pc = "failed" THEN "failed" ELSE loopPc
    /\ UNCHANGED <<svars, uvars, io, breakReason, tasks, entity_positions, allocLock, streams,
                   entity_streams, block_update_streams, seqChan, sequences, datagrams,
                   sendLog, encoded, tcpLock, tcpOut>>

\* A return of the break reason that does not drain the JoinSet.
ReturnUndrained ==
    /\ loopPc = "draining"
    /\ loopPc' = "returned"
    /\ UNCHANGED <<svars, uvars, io, breakReason, tasks, joined, entity_positions, allocLock, streams,
                   entity_streams, block_update_streams, seqChan, sequences, datagrams,
                   sendLog, encoded, tcpLock, tcpOut>>

\* The drain found the JoinSet empty: run returns the break reason.
Return ==
    /\ loopPc = "draining"
    /\ joined = TaskIds
    /\ loopPc' = "returned"
    /\ UNCHANGED <<svars, uvars, io, breakReason, tasks, joined, entity_positions, allocLock, streams,
                   entity_streams, block_update_streams, seqChan, sequences, datagrams,
                   sendLog, encoded, tcpLock, tcpOut>>

\* The Login loop calls run again after EnableEncryption / EnableCompression.
Resume ==
    /\ loopPc = "returned"
    /\ breakReason \in {"EnableEncryption", "EnableCompression"}
    /\ loopPc' = "running"
    /\ breakReason' = Continue
    /\ UNCHANGED <<svars, uvars, io, tasks, joined, entity_positions, allocLock, streams,
                   entity_streams, block_update_streams, seqChan, sequences, datagrams,
                   sendLog, encoded, tcpLock, tcpOut>>

(* ------------------------------------------ SingleQuicPacketIo::send_packet *)
\* First poll of a forwarder to the single-stream endpoint: the packet goes
\* to the writer's channel and the task awaits its completion.
SingleSend(t) ==
    /\ io = "Single"
    /\ tasks[t].dir = "toQuic"
    /\ tasks[t].pc = "spawned"
    /\ streams' = SendPacket(streams, 1, t).streams
    /\ tasks' = SendPacket(streams, 1, t).tasks
    /\ UNCHANGED <<svars, uvars, io, loopPc, breakReason, joined, entity_positions, allocLock,
                   entity_streams, block_update_streams, seqChan, sequences, datagrams,
                   sendLog, encoded, tcpLock, tcpOut>>

(* ------------------------------------------------ QuicPacketIo::send_packet *)
\* First poll of a Play forwarder: the translator (its lock is never held
\* across an await) and the request for the allocator lock.
PlaySend(t) ==
    /\ io \in {"PlayClient", "PlayServer"}
    /\ tasks[t].dir = "toQuic"
    /\ tasks[t].pc = "spawned"
    /\ LET tr == TranslatePacket(io, entity_positions, tasks[t].packet)
       IN /\ entity_positions' = tr.positions
          /\ tasks' = [tasks EXCEPT ![t].packet = tr.packet, ![t].pc = "allocating"]
    /\ allocLock' = Append(allocLock, t)
    /\ UNCHANGED <<svars, uvars, io, loopPc, breakReason, joined, streams, entity_streams,
                   block_update_streams, seqChan, sequences, datagrams, sendLog,
                   encoded, tcpLock, tcpOut>>

\* The stream a keyed lookup finds in its cache, 0 on a miss.
Cached(a) ==
    CASE a.type = "Shared" -> a.key
      [] a.type = "Entity" ->
            IF a.key \in DOMAIN entity_streams THEN entity_streams[a.key] ELSE 0
      [] a.type = "Block" ->
            IF a.key \in DOMAIN block_update_streams
            THEN block_update_streams[a.key] ELSE 0
      [] OTHER -> 0

\* With the allocator lock: allocate_stream_for.  A shared or cached stream,
\* or a sequence key, is returned at once, the lock is dropped and the packet
\* handed to the stream's writer or to the sequence transport.  A miss and a
\* one-shot stream await open_uni with the lock held.
Allocate(t) ==
    /\ tasks[t].pc = "allocating"
    /\ allocLock # <<>> /\ Head(allocLock) = t
    /\ LET a == AllocateStreamFor(io, tasks[t].packet)
       IN CASE a.type = "Sequence" ->
                 /\ Len(seqChan) < SEQUENCE_CHANNEL_CAPACITY
                 /\ seqChan' = Append(seqChan, [key |-> a.key, task |-> t])
                 /\ allocLock' = Tail(allocLock)
                 /\ tasks' = SetPc(t, "sent")
                 /\ UNCHANGED streams
            [] a.type # "Sequence" /\ Cached(a) # 0 ->
                 /\ streams' = SendPacket(streams, Cached(a), t).streams
                 /\ allocLock' = Tail(allocLock)
                 /\ tasks' = SendPacket(streams, Cached(a), t).tasks
                 /\ UNCHANGED seqChan
            [] OTHER ->
                 /\ tasks' = SetPc(t, "opening")
                 /\ UNCHANGED <<streams, allocLock, seqChan>>
    /\ UNCHANGED <<svars, uvars, io, loopPc, breakReason, joined, entity_positions, entity_streams,
                   block_update_streams, sequences, datagrams, sendLog, encoded,
                   tcpLock, tcpOut>>

\* open_uni returned: the stream is inserted in its cache, the lock dropped
\* and the packet handed to the new stream's writer.
OpenUni(t) ==
    /\ tasks[t].pc = "opening"
    /\ LET a == AllocateStreamFor(io, tasks[t].packet)
           s == Len(streams) + 1
       IN /\ streams' = Push(Append(streams, NewStream(a.type)), s, t)
          /\ entity_streams' = IF a.type = "Entity"
                               THEN Insert(entity_streams, a.key, s)
                               ELSE entity_streams
          /\ block_update_streams' = IF a.type = "Block"
                                     THEN Insert(block_update_streams, a.key, s)
                                     ELSE block_update_streams
    /\ allocLock' = Tail(allocLock)
    /\ tasks' = SetPc(t, "sent")
    /\ UNCHANGED <<svars, uvars, io, loopPc, breakReason, joined, entity_positions, seqChan,
                   sequences, datagrams, sendLog, encoded, tcpLock, tcpOut>>

(* ------------------------------------ SendStreamHandle's writer task *)
\* The writer takes the next packet of its channel, encodes it, writes the
\* frame and completes the sender; a waiting sender's packet moves up.
StreamWriter(s) ==
    /\ streams[s].chan # <<>>
    /\ ~streams[s].dead
    /\ LET t == Head(streams[s].chan)
           rest == Tail(streams[s].chan)
           w == streams[s].waiting
       IN /\ streams' = [streams EXCEPT
                 ![s].chan = IF w = <<>> THEN rest ELSE Append(rest, Head(w)),
                 ![s].waiting = IF w = <<>> THEN w ELSE Tail(w),
                 ![s].wire = Append(@, t)]
          /\ sendLog' = Append(sendLog, t)
          /\ tasks' = SetPc(t, "done")
    /\ UNCHANGED <<svars, uvars, io, loopPc, breakReason, joined, entity_positions, allocLock,
                   entity_streams, block_update_streams, seqChan, sequences, datagrams,
                   encoded, tcpLock, tcpOut>>

\* The writer's write_all fails: the sender gets the error and the writer
\* task ends, which drops its channel and with it the completion sender of
\* every packet queued or waiting, so each of those sends fails as well.
\* (A channel that keeps its queue while a Sender lives leaves the queued
\* sends waiting instead; SpecSendHandle takes both.  Either way the loop
\* of the proxy ends with the first forwarder that failed.)
StreamWriteFails(s) ==
    /\ streams[s].chan # <<>>
    /\ ~streams[s].dead
    /\ Cardinality(Failed) < MaxFailures
    /\ LET gone == Range(streams[s].chan) \cup Range(streams[s].waiting)
       IN tasks' = [t \in TaskIds |->
                       IF t \in gone THEN [tasks[t] EXCEPT !.pc = "failed"] ELSE tasks[t]]
    /\ streams' = [streams EXCEPT ![s].chan = <<>>, ![s].waiting = <<>>, ![s].dead = TRUE]
    /\ UNCHANGED <<svars, uvars, io, loopPc, breakReason, joined, entity_positions, allocLock,
                   entity_streams, block_update_streams, seqChan, sequences, datagrams,
                   sendLog, encoded, tcpLock, tcpOut>>

(* ------------------------------------------------ Sequences::send_packet *)
\* Sequence::next_send_ordinal on the sequence get_sequence finds or creates.
SendCounter(key) ==
    IF key \in DOMAIN sequences THEN sequences[key].send_counter ELSE 0

NewestReceived(key) ==
    IF key \in DOMAIN sequences THEN sequences[key].newest_received ELSE 0

\* The transport's sender task takes the next packet, stamps it with the
\* next ordinal of its key and submits the datagram.
SequencesSend ==
    /\ seqChan # <<>>
    /\ LET m == Head(seqChan)
       IN /\ datagrams' = Append(datagrams,
                 [key |-> m.key, ordinal |-> SendCounter(m.key), task |-> m.task])
          /\ sequences' = Insert(sequences, m.key,
                 [send_counter |-> SendCounter(m.key) + 1,
                  newest_received |-> NewestReceived(m.key)])
          /\ sendLog' = Append(sendLog, m.task)
          /\ tasks' = SetPc(m.task, "done")
    /\ seqChan' = Tail(seqChan)
    /\ UNCHANGED <<svars, uvars, io, loopPc, breakReason, joined, entity_positions, allocLock,
                   streams, entity_streams, block_update_streams, encoded, tcpLock,
                   tcpOut>>

(* --------------------------------------------- VanillaPacketIo::send_packet *)
\* A mutex that hands itself to the task that asked last.
Barge(waiters, t) == <<t>> \o waiters

\* tokio's Mutex::lock: the lock goes to the tasks in the order they asked.
Enqueue(waiters, t) == Append(waiters, t)

\* First poll of a forwarder to the TCP endpoint: the frame is encoded under
\* the codec lock, and the task asks for the stream lock.
TcpEncode(t) ==
    /\ tasks[t].dir = "toTcp"
    /\ tasks[t].pc = "spawned"
    /\ encoded' = Append(encoded, t)
    /\ tcpLock' = Enqueue(tcpLock, t)
    /\ tasks' = SetPc(t, "writing")
    /\ UNCHANGED <<svars, uvars, io, loopPc, breakReason, joined, entity_positions, allocLock,
                   streams, entity_streams, block_update_streams, seqChan, sequences,
                   datagrams, sendLog, tcpOut>>

\* With the stream lock: write_all completed and the lock is dropped.
TcpWrite(t) ==
    /\ tasks[t].pc = "writing"
    /\ tcpLock # <<>> /\ Head(tcpLock) = t
    /\ tcpOut' = Append(tcpOut, t)
    /\ tcpLock' = Tail(tcpLock)
    /\ tasks' = SetPc(t, "done")
    /\ UNCHANGED <<svars, uvars, io, loopPc, breakReason, joined, entity_positions, allocLock,
                   streams, entity_streams, block_update_streams, seqChan, sequences,
                   datagrams, sendLog, encoded>>

\* With the stream lock: write_all returned an error; the lock is dropped.
TcpWriteFails(t) ==
    /\ tasks[t].pc = "writing"
    /\ tcpLock # <<>> /\ Head(tcpLock) = t
    /\ Cardinality(Failed) < MaxFailures
    /\ tcpLock' = Tail(tcpLock)
    /\ tasks' = SetPc(t, "failed")
    /\ UNCHANGED <<svars, uvars, io, loopPc, breakReason, joined, entity_positions, allocLock,
                   streams, entity_streams, block_update_streams, seqChan, sequences,
                   datagrams, sendLog, encoded, tcpOut>>

\* The executor polls a forwarder.
Poll ==
    \E t \in TaskIds :
        \/ SingleSend(t)
        \/ PlaySend(t)
        \/ Allocate(t)
        \/ OpenUni(t)
        \/ TcpEncode(t)
        \/ TcpWrite(t)
        \/ TcpWriteFails(t)

Writers == \E s \in 1..Len(streams) : StreamWriter(s) \/ StreamWriteFails(s)

ProxyNext ==
    \/ RecvFromTcp
    \/ RecvFromQuic
    \/ RecvFails
    \/ JoinNext
    \/ Return
    \/ Resume
    \/ Poll
    \/ Writers
    \/ SequencesSend

SpecProxy == ProxyInit /\ [][ProxyNext]_vars

(* =============================================================== session *)
(* ------------------------------------------ ClientHandle::open, Client::new *)
\* ConnectTo sent and the acknowledgement not awaited.
ClientConnectToUnacknowledged ==
    /\ cl.pc = "start"
    /\ ctl' = [ctl EXCEPT !.c2g = Append(@, "ConnectTo"),
                          !.log = Append(@, "ConnectTo")]
    /\ cl' = [cl EXCEPT !.pc = "listening"]
    /\ UNCHANGED <<pvars, uvars, auth, gw, cStreams, gStreams, net, env, hist>>

\* ClientSide::open and the first half of connect_to: ConnectTo is sent.
ClientConnectTo ==
    /\ cl.pc = "start"
    /\ ctl' = [ctl EXCEPT !.c2g = Append(@, "ConnectTo"),
                          !.log = Append(@, "ConnectTo")]
    /\ cl' = [cl EXCEPT !.pc = "waitAck"]
    /\ UNCHANGED <<pvars, uvars, auth, gw, cStreams, gStreams, net, env, hist>>

\* enum GatewayMessage
GatewayMessage == {"AcknowledgeConnectTo", "AcknowledgeEnableTerminalEncryption"}

\* ClientSide::wait_for_ack: the next gateway message must be the expected one.
WaitForAck(expected, m, ok) == IF m = expected THEN ok ELSE "error"

\* The second half of connect_to; on success the thread that accepts the
\* local TCP connection is spawned.
ClientConnectAck ==
    /\ cl.pc = "waitAck"
    /\ ctl.g2c # <<>>
    /\ ctl' = [ctl EXCEPT !.g2c = Tail(@)]
    /\ cl' = [cl EXCEPT !.got = @ \cup {Head(ctl.g2c)},
                        !.pc = WaitForAck("AcknowledgeConnectTo", Head(ctl.g2c),
                                          "listening")]
    /\ UNCHANGED <<pvars, uvars, auth, gw, cStreams, gStreams, net, env, hist>>

\* client_listener.accept() returned and Client::new built the Handshake
\* state: SingleQuicPacketIo::new opened the Handshake stream.
ClientAccept ==
    /\ cl.pc = "listening"
    /\ env' = [env EXCEPT !.local = TRUE]
    /\ cStreams' = Append(cStreams, NewUni("Handshake"))
    /\ cl' = [cl EXCEPT !.pc = "handshake", !.send = Len(cStreams) + 1]
    /\ UNCHANGED <<pvars, uvars, auth, ctl, gw, gStreams, net, hist>>

(* ------------------------------------------------------- drive_connection *)
\* A gateway that takes every key.
AnyKey(a) == TRUE

\* AuthenticationKey::is_correct on the key ConnectTo carries.
is_correct(a) == a = "good"

\* GatewaySide::accept, wait_for_connect_to and the authentication check.
GatewayWaitForConnectTo ==
    /\ gw.pc = "waitConnectTo"
    /\ ctl.c2g # <<>>
    /\ ctl' = [ctl EXCEPT !.c2g = Tail(@)]
    /\ gw' = [gw EXCEPT !.pc = IF Head(ctl.c2g) = "ConnectTo" /\ is_correct(auth)
                                THEN "connecting" ELSE "error"]
    /\ UNCHANGED <<pvars, uvars, auth, cl, cStreams, gStreams, net, env, hist>>

\* TcpStream::connect to the destination: established, or failed.
GatewayConnect ==
    /\ gw.pc = "connecting"
    /\ \E ok \in BOOLEAN :
          /\ env' = [env EXCEPT !.dest = ok]
          /\ gw' = [gw EXCEPT !.pc = IF ok THEN "connected" ELSE "error"]
    /\ UNCHANGED <<pvars, uvars, auth, ctl, cl, cStreams, gStreams, net, hist>>

\* acknowledge_connect_to, then SingleQuicPacketIo::new for Handshake.
GatewayAcknowledgeConnectTo ==
    /\ gw.pc = "connected"
    /\ ctl' = [ctl EXCEPT !.g2c = Append(@, "AcknowledgeConnectTo"),
                          !.sent = @ \cup {"AcknowledgeConnectTo"}]
    /\ gStreams' = Append(gStreams, NewUni("Handshake"))
    /\ gw' = [gw EXCEPT !.pc = "handshake", !.send = Len(gStreams) + 1]
    /\ UNCHANGED <<pvars, uvars, auth, cl, cStreams, net, env, hist>>

(* ------------------------------------------------------------ surroundings *)
\* The state the two vanilla endpoints are in after a client packet: the
\* protocol's state machine, which both follow on the packets they exchange.
NextState(st, f) ==
    CASE f.kind = "Handshake" -> IF f.x = STATUS THEN "Status" ELSE "Login"
      [] f.kind = "LoginAcknowledged" -> "Configuration"
      [] f.kind = "FinishConfiguration" -> "Play"
      [] f.kind = "AcknowledgeConfiguration" -> "Configuration"
      [] OTHER -> st

\* The game client writes a packet of its state to the local TCP connection.
\* The translator reads that connection in order and nothing else depends
\* on it, so a packet written once the one before it was read stands for
\* every earlier moment it could have been written at.
GameClientSend ==
    /\ env.local
    /\ net.gc2t = <<>>
    /\ env.gcSent < MaxClientSends
    /\ \E f \in ClientPackets(env.gcSt) :
          /\ net' = [net EXCEPT !.gc2t = Append(@, f)]
          /\ env' = [env EXCEPT !.gcSt = NextState(@, f), !.gcSent = @ + 1]
    /\ UNCHANGED <<pvars, uvars, auth, ctl, cl, gw, cStreams, gStreams, hist>>

\* The host calls ClientHandle::set_encryption_key; the call shows only
\* once the Login handler awaits the key.
HostSetEncryptionKey ==
    /\ cl.pc = "waitKey"
    /\ ~env.keySet
    /\ env' = [env EXCEPT !.keySet = TRUE]
    /\ UNCHANGED <<pvars, uvars, auth, ctl, cl, gw, cStreams, gStreams, net, hist>>

\* The destination server writes a packet of its state, in the framing it
\* has in force; after a SetCompression with a threshold >= 0 it compresses.
ServerSend ==
    /\ env.dest
    /\ env.srvSent < MaxServerSends
    /\ \E f \in ServerPackets(env.srvSt) :
          /\ net' = [net EXCEPT !.s2gw =
                Append(@, [frame |-> f, enc |-> env.srvEnc, comp |-> env.srvComp])]
          /\ env' = [env EXCEPT
                !.srvComp = IF f.kind = "SetCompression" /\ f.x >= 0 THEN {f.x} ELSE @,
                !.srvSent = @ + 1]
    /\ UNCHANGED <<pvars, uvars, auth, ctl, cl, gw, cStreams, gStreams, hist>>

\* The destination server has read a packet the gateway wrote: it follows
\* the protocol's state machine, and from the EncryptionResponse on it
\* encrypts what it sends.  A packet is taken to be read as it is written,
\* the earliest the server can act on it.
ServerReceive(e, f) ==
    [e EXCEPT !.srvSt = NextState(@, f),
              !.srvEnc = @ \/ f.kind = "EncryptionResponse"]

(* ------------------------------------------------------------ Client states *)
RemoveAt(q, i) == SubSeq(q, 1, i - 1) \o SubSeq(q, i + 1, Len(q))

SingleStates == {"Handshake", "Status", "Login", "Configuration"}

\* HandshakeState::proxy_until_next_state, up to the send of the Handshake.
ClientHandshake ==
    /\ cl.pc = "handshake"
    /\ net.gc2t # <<>>
    /\ net' = [net EXCEPT !.gc2t = Tail(@)]
    /\ cStreams' = WriteUni(cStreams, cl.send, Head(net.gc2t))
    /\ cl' = [cl EXCEPT !.pc = "hack",
                        !.reason = NextState("Handshake", Head(net.gc2t))]
    /\ hist' = [hist EXCEPT !.sent = Append(@, Head(net.gc2t).state)]
    /\ UNCHANGED <<pvars, uvars, auth, ctl, gw, gStreams, env>>

\* into_status or into_login without the accept_uni before it.
ClientKeepHandshakeStream ==
    /\ cl.pc = "hack"
    /\ cStreams' = SwitchUni(cStreams, cl.send, cl.reason)
    /\ cl' = [cl EXCEPT !.pc = "run", !.st = cl.reason, !.reason = Continue,
                        !.recv = {}, !.send = Len(cStreams) + 1]
    /\ hist' = [hist EXCEPT
          !.trans = @ \cup {<<"client", "Handshake", cl.reason, "Handshake">>}]
    /\ UNCHANGED <<pvars, uvars, auth, ctl, gw, gStreams, net, env>>

\* The accept_uni that consumes the gateway's Handshake stream, then
\* into_status or into_login.
ClientConsumeHandshakeStream ==
    /\ cl.pc = "hack"
    /\ Known(gStreams, cl.acc + 1)
    /\ cStreams' = SwitchUni(cStreams, cl.send, cl.reason)
    /\ cl' = [cl EXCEPT !.pc = "run", !.st = cl.reason, !.reason = Continue,
                        !.acc = @ + 1, !.recv = {}, !.send = Len(cStreams) + 1]
    /\ hist' = [hist EXCEPT
          !.accepted = @ \cup {<<"client", "Handshake", gStreams[cl.acc + 1].state>>},
          !.trans = @ \cup {<<"client", "Handshake", cl.reason, "Handshake">>}]
    /\ UNCHANGED <<pvars, uvars, auth, ctl, gw, gStreams, net, env>>

\* Proxy::run of the client translator, client arm: a packet of the game
\* client is decoded, shown to the interceptor and given to a forwarder.
ClientRecvTcp ==
    /\ cl.pc = "run"
    /\ net.gc2t # <<>>
    /\ net' = [net EXCEPT !.gc2t = Tail(@)]
    /\ LET f == Head(net.gc2t)
           k == Decode(cl.st, f)
           r == ClientIntercept(cl.st, "client", k)
       IN cl' = [cl EXCEPT
             !.pending = Append(@, [dir |-> "toQuic", frame |-> Frame(cl.st, k, f.x),
                                    seen |-> {}]),
             !.pc = IF r = Continue THEN "run" ELSE "drain",
             !.reason = r]
    /\ UNCHANGED <<pvars, uvars, auth, ctl, gw, cStreams, gStreams, env, hist>>

\* The receive side of the client's QUIC endpoint accepts a stream: the
\* single-stream endpoint its one stream, the Play receiver any stream.
ClientAcceptUni ==
    /\ cl.pc = "run"
    /\ cl.st = "Play" \/ cl.recv = {}
    /\ Known(gStreams, cl.acc + 1)
    /\ cl' = [cl EXCEPT !.acc = @ + 1, !.recv = @ \cup {cl.acc + 1}]
    /\ hist' = [hist EXCEPT
          !.accepted = @ \cup {<<"client", cl.st, gStreams[cl.acc + 1].state>>}]
    /\ UNCHANGED <<pvars, uvars, auth, ctl, gw, cStreams, gStreams, net, env>>

\* Proxy::run of the client translator, server arm.
ClientRecvQuic ==
    /\ cl.pc = "run"
    /\ \E i \in cl.recv :
          /\ gStreams[i].buf # <<>>
          /\ gStreams' = [gStreams EXCEPT ![i].buf = Tail(@)]
          /\ LET f == Head(gStreams[i].buf)
                 k == Decode(cl.st, f)
             IN cl' = [cl EXCEPT
                   !.pending = Append(@, [dir |-> "toTcp",
                                          frame |-> Frame(cl.st, k, f.x),
                                          seen |-> {}])]
    /\ UNCHANGED <<pvars, uvars, auth, ctl, gw, cStreams, net, env, hist>>

\* recv_packet on a finished stream: "end of stream" ends the session.
ClientEndOfStream ==
    /\ cl.pc = "run"
    /\ cl.st \in SingleStates
    /\ \E i \in cl.recv : gStreams[i].buf = <<>> /\ gStreams[i].fin
    /\ cl' = [cl EXCEPT !.pc = "error"]
    /\ UNCHANGED <<pvars, uvars, auth, ctl, gw, cStreams, gStreams, net, env, hist>>

\* run_inner returned an error: the Client is dropped, and with it the
\* endpoint of its state, whose send stream is finished.
ClientDrop ==
    /\ cl.pc = "error"
    /\ cl.send # 0
    /\ cStreams' = FinishUni(cStreams, cl.send)
    /\ cl' = [cl EXCEPT !.pc = "dropped"]
    /\ UNCHANGED <<pvars, uvars, auth, ctl, gw, gStreams, net, env, hist>>

\* The streams after a packet went out of a peer whose current send stream
\* (the chat stream in Play) is the one numbered send.
SendUni(strs, st, side, send, f) ==
    IF st # "Play" THEN WriteUni(strs, send, f)
    ELSE LET a == AllocateStreamFor(side, f)
         IN IF a.type = "Shared" THEN WriteUni(strs, send + a.key - 1, f)
            ELSE FinishUni(WriteUni(Append(strs, NewUni("Play")), Len(strs) + 1, f),
                           Len(strs) + 1)

\* A forwarder of the client translator completes its send_packet.
ClientForward ==
    /\ cl.pc \in {"run", "drain"}
    /\ \E i \in 1..Len(cl.pending) :
          /\ cl' = [cl EXCEPT !.pending = RemoveAt(@, i)]
          /\ IF cl.pending[i].dir = "toQuic"
             THEN /\ cStreams' = SendUni(cStreams, cl.st, "PlayClient", cl.send,
                                         cl.pending[i].frame)
                  /\ hist' = [hist EXCEPT
                        !.sent = Append(@, cl.pending[i].frame.state)]
                  /\ UNCHANGED net
             ELSE /\ net' = [net EXCEPT !.t2gc = @ \cup
                        {[frame |-> cl.pending[i].frame, enc |-> cl.encryption,
                          comp |-> cl.compression]}]
                  /\ UNCHANGED <<cStreams, hist>>
    /\ UNCHANGED <<pvars, uvars, auth, ctl, gw, gStreams, env>>

\* A return that does not wait for the forwarders.
NotDrained(p) == TRUE

\* The loop that follows a Break: join_next until no forwarder is left.
Drained(p) == p.pending = <<>>

\* A key future that can be taken any number of times.
NeverTaken(c) == FALSE

\* encryption_key.take() found None: the future was taken before.
KeyTaken(c) == c.keyTaken

\* Proxy::run returned Break(reason) after its drain, and the state's
\* handler acts on it: LoginState takes the key future, into_configuration,
\* into_play.
ClientReturn ==
    /\ cl.pc = "drain"
    /\ Drained(cl)
    /\ CASE cl.reason = "EnableEncryption" ->
              /\ cl' = [cl EXCEPT !.pc = IF KeyTaken(cl) THEN "error" ELSE "waitKey",
                                  !.keyTaken = TRUE]
              /\ UNCHANGED <<cStreams, hist>>
         [] cl.reason = "Finish" ->
              /\ cStreams' = SwitchUni(cStreams, cl.send, "Configuration")
              /\ cl' = [cl EXCEPT !.pc = "run", !.st = "Configuration",
                                  !.reason = Continue, !.recv = {},
                                  !.send = Len(cStreams) + 1]
              /\ hist' = [hist EXCEPT
                    !.skipped = IF cl.recv = {} THEN @ \cup {cl.st} ELSE @,
                    !.trans = @ \cup
                       {<<"client", cl.st, "Configuration", "LoginAcknowledged">>}]
         [] OTHER ->
              /\ cStreams' = EnterPlayUni(cStreams, cl.send)
              /\ cl' = [cl EXCEPT !.pc = "run", !.st = "Play",
                                  !.reason = Continue, !.recv = {},
                                  !.send = Len(cStreams) + 1]
              /\ hist' = [hist EXCEPT
                    !.skipped = IF cl.recv = {} THEN @ \cup {cl.st} ELSE @,
                    !.trans = @ \cup
                       {<<"client", cl.st, "Play", "FinishConfiguration">>}]
    /\ UNCHANGED <<pvars, uvars, auth, ctl, gw, gStreams, net, env>>

\* The key future resolved; enable_terminal_encryption sends the key.
ClientEnableTerminalEncryption ==
    /\ cl.pc = "waitKey"
    /\ env.keySet
    /\ ctl' = [ctl EXCEPT !.c2g = Append(@, "EnableTerminalEncryption"),
                          !.log = Append(@, "EnableTerminalEncryption")]
    /\ cl' = [cl EXCEPT !.pc = "waitAckEncryption"]
    /\ UNCHANGED <<pvars, uvars, auth, gw, cStreams, gStreams, net, env, hist>>

\* enable_terminal_encryption's wait_for_ack, then the Login loop runs again.
ClientEncryptionAck ==
    /\ cl.pc = "waitAckEncryption"
    /\ ctl.g2c # <<>>
    /\ ctl' = [ctl EXCEPT !.g2c = Tail(@)]
    /\ cl' = [cl EXCEPT !.got = @ \cup {Head(ctl.g2c)}, !.reason = Continue,
                        !.pc = WaitForAck("AcknowledgeEnableTerminalEncryption",
                                          Head(ctl.g2c), "run")]
    /\ UNCHANGED <<pvars, uvars, auth, gw, cStreams, gStreams, net, env, hist>>

(* ----------------------------------------------------------- gateway states *)
\* The receive side of the gateway's QUIC endpoint accepts a stream.
GatewayAcceptUni ==
    /\ gw.pc \in {"handshake", "run"}
    /\ ~gw.bi
    /\ gw.st = "Play" \/ gw.recv = {}
    /\ Known(cStreams, gw.acc + 1)
    /\ gw' = [gw EXCEPT !.acc = @ + 1, !.recv = @ \cup {gw.acc + 1}]
    /\ hist' = [hist EXCEPT
          !.accepted = @ \cup {<<"gateway", gw.st, cStreams[gw.acc + 1].state>>}]
    /\ UNCHANGED <<pvars, uvars, auth, ctl, cl, cStreams, gStreams, net, env>>

\* What VanillaPacketIo::send_packet of the gateway puts on the socket.
Encoded(f, seen) ==
    [frame |-> f, enc |-> gw.encryption, comp |-> gw.compression, seen |-> seen]

\* A gateway that takes the Handshake and does not send it on.
GatewayHandshakeUnforwarded ==
    /\ gw.pc = "handshake"
    /\ \E i \in gw.recv :
          /\ cStreams[i].buf # <<>>
          /\ cStreams' = [cStreams EXCEPT ![i].buf = Tail(@)]
          /\ LET next == NextState("Handshake", Head(cStreams[i].buf))
             IN /\ gw' = [gw EXCEPT !.pc = "run", !.st = next, !.recv = {},
                                    !.send = Len(gStreams) + 1]
                /\ gStreams' = SwitchUni(gStreams, gw.send, next)
                /\ hist' = [hist EXCEPT !.trans = @ \cup
                      {<<"gateway", "Handshake", next, "Handshake">>}]
    /\ UNCHANGED <<pvars, uvars, auth, ctl, cl, net, env>>

\* configure_connection: the Handshake is received, sent on to the
\* destination, and next_state selects handle_status or the Login loop.
GatewayHandshake ==
    /\ gw.pc = "handshake"
    /\ \E i \in gw.recv :
          /\ cStreams[i].buf # <<>>
          /\ cStreams' = [cStreams EXCEPT ![i].buf = Tail(@)]
          /\ LET f == Head(cStreams[i].buf)
                 next == NextState("Handshake", f)
             IN /\ env' = ServerReceive(env, f)
                /\ gw' = [gw EXCEPT !.pc = "run", !.st = next, !.recv = {},
                                    !.send = Len(gStreams) + 1]
                /\ gStreams' = SwitchUni(gStreams, gw.send, next)
                /\ hist' = [hist EXCEPT
                      !.written = @ \cup {Encoded(f, gw.seen)},
                      !.dest = Append(@, f.state),
                      !.trans = @ \cup {<<"gateway", "Handshake", next, "Handshake">>}]
    /\ UNCHANGED <<pvars, uvars, auth, ctl, cl, net>>

\* The packets the Login interceptors react to, as the gateway observed them.
Observed(k, x) ==
    IF k \in {"EncryptionResponse", "SetCompression"} THEN {<<k, x>>} ELSE {}

\* Proxy::run of the gateway, client arm.
GatewayRecvQuic ==
    /\ gw.pc = "run"
    /\ ~gw.bi
    /\ \E i \in gw.recv :
          /\ cStreams[i].buf # <<>>
          /\ cStreams' = [cStreams EXCEPT ![i].buf = Tail(@)]
          /\ LET f == Head(cStreams[i].buf)
                 k == Decode(gw.st, f)
                 r == GatewayIntercept(gw.st, "client", k, f.x)
             IN gw' = [gw EXCEPT
                   !.pending = Append(@, [dir |-> "toTcp",
                                          frame |-> Frame(gw.st, k, f.x),
                                          seen |-> gw.seen]),
                   !.seen = @ \cup Observed(k, f.x),
                   !.pc = IF r = Continue THEN "run" ELSE "drain",
                   !.reason = r]
    /\ UNCHANGED <<pvars, uvars, auth, ctl, cl, gStreams, net, env, hist>>

\* VanillaPacketIo::recv_packet with no whole packet buffered: a read of the
\* socket, and give_data, which decrypts with the cipher then in force.
GatewayRead ==
    /\ gw.pc = "run"
    /\ gw.buf = <<>>
    /\ \E n \in 1..Len(net.s2gw) :
          /\ gw' = [gw EXCEPT !.buf =
                [j \in 1..n |-> [frame |-> net.s2gw[j].frame,
                                 enc |-> net.s2gw[j].enc,
                                 comp |-> net.s2gw[j].comp,
                                 dec |-> gw.encryption]]]
          /\ net' = [net EXCEPT !.s2gw = SubSeq(@, n + 1, Len(@))]
    /\ UNCHANGED <<pvars, uvars, auth, ctl, cl, cStreams, gStreams, env, hist>>

\* Proxy::run of the gateway, server arm: decode_packet with the framing
\* then in force, the interceptor, the forwarder.
GatewayRecvTcp ==
    /\ gw.pc = "run"
    /\ gw.buf # <<>>
    /\ LET b == Head(gw.buf)
           k == IF b.enc = b.dec /\ b.comp = gw.compression
                THEN Decode(gw.st, b.frame) ELSE "Misdecoded"
           r == GatewayIntercept(gw.st, "server", k, b.frame.x)
       IN /\ gw' = [gw EXCEPT
                !.buf = Tail(@),
                !.pending = Append(@, [dir |-> "toQuic",
                                       frame |-> Frame(gw.st, k, b.frame.x),
                                       seen |-> gw.seen]),
                !.seen = @ \cup Observed(k, b.frame.x),
                !.threshold = IF r = Continue THEN @ ELSE {b.frame.x},
                !.pc = IF r = Continue THEN "run" ELSE "drain",
                !.reason = r]
          /\ hist' = [hist EXCEPT !.decoded = @ \cup
                {[kind |-> k, enc |-> b.enc, dec |-> b.dec, comp |-> b.comp,
                  decomp |-> gw.compression, seen |-> gw.seen]}]
    /\ UNCHANGED <<pvars, uvars, auth, ctl, cl, cStreams, gStreams, net, env>>

\* recv_packet on a finished stream: "end of stream" ends the session.
GatewayEndOfStream ==
    /\ gw.pc \in {"handshake", "run"}
    /\ gw.st \in SingleStates
    /\ \E i \in gw.recv : cStreams[i].buf = <<>> /\ cStreams[i].fin
    /\ gw' = [gw EXCEPT !.pc = "error"]
    /\ UNCHANGED <<pvars, uvars, auth, ctl, cl, cStreams, gStreams, net, env, hist>>

\* A forwarder of the gateway completes its send_packet.
GatewayForward ==
    /\ gw.pc \in {"run", "drain"}
    /\ \E i \in 1..Len(gw.pending) :
          /\ gw' = [gw EXCEPT !.pending = RemoveAt(@, i)]
          /\ CASE gw.pending[i].dir = "toTcp" ->
                   /\ env' = ServerReceive(env, gw.pending[i].frame)
                   /\ hist' = [hist EXCEPT
                         !.written = @ \cup
                            {Encoded(gw.pending[i].frame, gw.pending[i].seen)},
                         !.dest = Append(@, gw.pending[i].frame.state)]
                   /\ UNCHANGED <<gStreams, net>>
               [] gw.pending[i].dir = "toQuic" /\ gw.bi ->
                   /\ net' = [net EXCEPT !.bi = @ \cup {gw.pending[i].frame}]
                   /\ UNCHANGED <<gStreams, hist, env>>
               [] OTHER ->
                   /\ gStreams' = SendUni(gStreams, gw.st, "PlayServer", gw.send,
                                          gw.pending[i].frame)
                   /\ UNCHANGED <<net, hist, env>>
    /\ UNCHANGED <<pvars, uvars, auth, ctl, cl, cStreams>>

\* GatewaySide::acknowledge_transition_play_to_config, which drive_connection
\* calls and control_stream.rs does not define: the acknowledgement the
\* specification names AckTransitionPlayToConfig.
AcknowledgeTransitionPlayToConfig(c) ==
    [c EXCEPT !.g2c = Append(@, "AckTransitionPlayToConfig"),
              !.sent = @ \cup {"AckTransitionPlayToConfig"}]

\* The Play endpoint is dropped with the three streams of its allocator;
\* the Configuration endpoint is built by SingleQuicPacketIo::from_streams
\* over the bidirectional "configuration" stream.
FromStreams(strs, send) == FinishUni(FinishUni(FinishUni(strs, send), send + 1), send + 2)

\* Proxy::run returned Break(reason) after its drain, and the gateway acts
\* on it: the Login loop's match, do_configuration, the Play loop's body.
GatewayReturn ==
    /\ gw.pc = "drain"
    /\ Drained(gw)
    /\ CASE gw.reason = "EnableEncryption" ->
              /\ gw' = [gw EXCEPT !.pc = "waitKey"]
              /\ UNCHANGED <<ctl, gStreams, hist>>
         [] gw.reason = "EnableCompression" ->
              /\ gw' = [gw EXCEPT
                    !.pc = IF gw.compression # {} THEN "panic" ELSE "run",
                    !.compression = IF gw.compression # {} THEN @ ELSE gw.threshold,
                    !.reason = Continue]
              /\ UNCHANGED <<ctl, gStreams, hist>>
         [] gw.reason = "FinishLogin" ->
              /\ gStreams' = SwitchUni(gStreams, gw.send, "Configuration")
              /\ gw' = [gw EXCEPT !.pc = "run", !.st = "Configuration",
                                  !.reason = Continue, !.recv = {},
                                  !.send = Len(gStreams) + 1]
              /\ hist' = [hist EXCEPT !.trans = @ \cup
                    {<<"gateway", gw.st, "Configuration", "LoginAcknowledged">>}]
              /\ UNCHANGED ctl
         [] gw.reason = "FinishConfiguration" ->
              /\ gStreams' = IF gw.bi
                             THEN gStreams \o <<NewUni("Play"), NewUni("Play"),
                                                NewUni("Play")>>
                             ELSE EnterPlayUni(gStreams, gw.send)
              /\ gw' = [gw EXCEPT !.pc = "run", !.st = "Play", !.bi = FALSE,
                                  !.reason = Continue, !.recv = {},
                                  !.send = Len(gStreams) + 1]
              /\ hist' = [hist EXCEPT !.trans = @ \cup
                    {<<"gateway", gw.st, "Play", "FinishConfiguration">>}]
              /\ UNCHANGED ctl
         [] OTHER ->
              /\ ctl' = AcknowledgeTransitionPlayToConfig(ctl)
              /\ gStreams' = FromStreams(gStreams, gw.send)
              /\ gw' = [gw EXCEPT !.pc = "run", !.st = "Configuration", !.bi = TRUE,
                                  !.reason = Continue, !.recv = {}]
              /\ hist' = [hist EXCEPT !.trans = @ \cup
                    {<<"gateway", gw.st, "Configuration", "AcknowledgeConfiguration">>}]
    /\ UNCHANGED <<pvars, uvars, auth, cl, cStreams, net, env>>

\* wait_for_terminal_encryption returned a message, and on the key
\* enable_encryption of the server-side endpoint (which asserts that no
\* cipher is installed yet).
GatewayEnableEncryption ==
    /\ gw.pc = "waitKey"
    /\ ctl.c2g # <<>>
    /\ ctl' = [ctl EXCEPT !.c2g = Tail(@)]
    /\ gw' = [gw EXCEPT
          !.pc = CASE Head(ctl.c2g) # "EnableTerminalEncryption" -> "error"
                   [] gw.encryption -> "panic"
                   [] OTHER -> "acknowledge",
          !.key = @ \/ Head(ctl.c2g) = "EnableTerminalEncryption",
          !.encryption = @ \/ Head(ctl.c2g) = "EnableTerminalEncryption"]
    /\ UNCHANGED <<pvars, uvars, auth, cl, cStreams, gStreams, net, env, hist>>

\* acknowledge_terminal_encryption, then the Login loop runs again.
GatewayAcknowledgeTerminalEncryption ==
    /\ gw.pc = "acknowledge"
    /\ ctl' = [ctl EXCEPT !.g2c = Append(@, "AcknowledgeEnableTerminalEncryption"),
                          !.sent = @ \cup {"AcknowledgeEnableTerminalEncryption"}]
    /\ gw' = [gw EXCEPT !.pc = "run", !.reason = Continue]
    /\ UNCHANGED <<pvars, uvars, auth, cl, cStreams, gStreams, net, env, hist>>

(* --------------------------------------------------------- specification *)
SessionInit ==
    /\ ProxyStart("Single")
    /\ \E a \in {"good", "bad"} : SessionStart(a)
    /\ UnitStart

SessionNext ==
    \/ ClientConnectTo
    \/ ClientConnectAck
    \/ ClientAccept
    \/ ClientHandshake
    \/ ClientConsumeHandshakeStream
    \/ ClientRecvTcp
    \/ ClientAcceptUni
    \/ ClientRecvQuic
    \/ ClientEndOfStream
    \/ ClientDrop
    \/ ClientForward
    \/ ClientReturn
    \/ ClientEnableTerminalEncryption
    \/ ClientEncryptionAck
    \/ GatewayWaitForConnectTo
    \/ GatewayConnect
    \/ GatewayAcknowledgeConnectTo
    \/ GatewayAcceptUni
    \/ GatewayHandshake
    \/ GatewayRecvQuic
    \/ GatewayRead
    \/ GatewayRecvTcp
    \/ GatewayEndOfStream
    \/ GatewayForward
    \/ GatewayReturn
    \/ GatewayEnableEncryption
    \/ GatewayAcknowledgeTerminalEncryption
    \/ GameClientSend
    \/ HostSetEncryptionKey
    \/ ServerSend

SpecSession == SessionInit /\ [][SessionNext]_vars

(* ------------------------------------------- peers that keep the protocol *)
\* Has the game client been written a packet of this state and kind.
GameClientGot(st, kind) ==
    \E t \in net.t2gc : t.frame.state = st /\ t.frame.kind = kind

\* Has the destination server been written a packet of this kind.
ServerGot(kind) == \E w \in hist.written : w.frame.kind = kind

\* What a game client that keeps to the protocol may send next: LoginStart
\* opens the login, it acknowledges the login once it has LoginSuccess, and
\* the end of the configuration once it has the server's
\* FinishConfiguration.
VanillaClientPackets(st) ==
    CASE st = "Handshake" -> {Frame(st, "Handshake", LOGIN)}
      [] st = "Login" ->
            IF env.gcSent = 1 THEN {Frame(st, "LoginStart", 0)}
            ELSE {Frame(st, "EncryptionResponse", 0)}
                 \cup (IF GameClientGot(st, "LoginSuccess")
                       THEN {Frame(st, "LoginAcknowledged", 0)} ELSE {})
      [] st = "Configuration" ->
            {Frame(st, "ClientInformation", 0)}
            \cup (IF GameClientGot(st, "FinishConfiguration")
                  THEN {Frame(st, "FinishConfiguration", 0)} ELSE {})
      [] OTHER -> {Frame(st, "ChatMessage", 0)}

\* What a destination server that keeps to the protocol may send next: it
\* answers LoginStart, LoginSuccess ends what it sends in Login, and in
\* Configuration it sends
\* its FinishConfiguration once and keep-alives at any time until the
\* client's acknowledgement comes.
VanillaServerPackets(st, finished) ==
    CASE st = "Login" /\ st \notin finished /\ ServerGot("LoginStart") ->
            {Frame(st, "LoginSuccess", 0), Frame(st, "SetCompression", 256)}
      [] st = "Configuration" ->
            {Frame(st, "KeepAlive", 0)}
            \cup (IF st \notin finished
                  THEN {Frame(st, "FinishConfiguration", 0)} ELSE {})
      [] st = "Play" -> {Frame(st, "KeepAlive", 0)}
      [] OTHER -> {}

VanillaClientSend ==
    /\ env.local
    /\ net.gc2t = <<>>
    /\ env.gcSent < MaxClientSends
    /\ \E f \in VanillaClientPackets(env.gcSt) :
          /\ net' = [net EXCEPT !.gc2t = Append(@, f)]
          /\ env' = [env EXCEPT !.gcSt = NextState(@, f), !.gcSent = @ + 1]
    /\ UNCHANGED <<pvars, uvars, auth, ctl, cl, gw, cStreams, gStreams, hist>>

VanillaServerSend ==
    /\ env.dest
    /\ env.srvSent < MaxVanillaSends
    /\ \E f \in VanillaServerPackets(env.srvSt, env.finished) :
          /\ net' = [net EXCEPT !.s2gw =
                Append(@, [frame |-> f, enc |-> env.srvEnc, comp |-> env.srvComp])]
          /\ env' = [env EXCEPT
                !.srvComp = IF f.kind = "SetCompression" /\ f.x >= 0 THEN {f.x} ELSE @,
                !.finished = IF f.kind \in {"LoginSuccess", "FinishConfiguration"}
                             THEN @ \cup {env.srvSt} ELSE @,
                !.srvSent = @ + 1]
    /\ UNCHANGED <<pvars, uvars, auth, ctl, cl, gw, cStreams, gStreams, hist>>

VanillaInit ==
    /\ ProxyStart("Single")
    /\ SessionStart("good")
    /\ UnitStart

\* The session's actions with these peers; no stream of a single-stream
\* state is seen to end while both peers keep to the protocol.
VanillaNext ==
    \/ ClientConnectTo
    \/ ClientConnectAck
    \/ ClientAccept
    \/ ClientHandshake
    \/ ClientConsumeHandshakeStream
    \/ ClientRecvTcp
    \/ ClientAcceptUni
    \/ ClientRecvQuic
    \/ ClientDrop
    \/ ClientForward
    \/ ClientReturn
    \/ ClientEnableTerminalEncryption
    \/ ClientEncryptionAck
    \/ GatewayWaitForConnectTo
    \/ GatewayConnect
    \/ GatewayAcknowledgeConnectTo
    \/ GatewayAcceptUni
    \/ GatewayHandshake
    \/ GatewayRecvQuic
    \/ GatewayRead
    \/ GatewayRecvTcp
    \/ GatewayForward
    \/ GatewayReturn
    \/ GatewayEnableEncryption
    \/ GatewayAcknowledgeTerminalEncryption
    \/ VanillaClientSend
    \/ HostSetEncryptionKey
    \/ VanillaServerSend

SpecVanilla == VanillaInit /\ [][VanillaNext]_vars

(* ============================================================ Sequences *)
\* A cache with one slot for all keys.
OneSlot(key) == <<"EntityPosition", 1>>

\* The cache's slot of a key: SequenceKey's derived Hash and Eq.
Slot(key) == key

\* Sequence::new
NewSequence == [send_counter |-> 0, newest_received |-> 0, idle |-> 0]

\* Cache::get under time_to_idle: an entry not read or written for the idle
\* duration is gone.
Live(key) ==
    /\ Slot(key) \in DOMAIN seq.sequences
    /\ seq.sequences[Slot(key)].idle < SEQUENCE_IDLE_DURATION

\* Sequences::get_sequence: the cached sequence, whose entry the lookup
\* refreshes, or a new one inserted under the key.
GetSequence(key) ==
    IF Live(key) THEN [seq.sequences[Slot(key)] EXCEPT !.idle = 0] ELSE NewSequence

\* A receive that keeps only ordinals above the newest received.
ReceivePacketStrict(sequence, packet_ordinal) == packet_ordinal > sequence.newest_received

\* A receive that keeps every datagram.
ReceivePacketAny(sequence, packet_ordinal) == packet_ordinal >= 0

\* Sequence::receive_packet: is the datagram kept.
ReceivePacket(sequence, packet_ordinal) == packet_ordinal >= sequence.newest_received

\* The remote's Sequences::send_packet on key: the next ordinal of the
\* remote's counter, in a datagram the transport may deliver at any later
\* time or never.
RemoteSendPacket(key) ==
    /\ Cardinality(seq.flight) + Len(seq.delivered) + Cardinality(seq.dropped) < MaxOrdinals
    /\ seq' = [seq EXCEPT !.sent[key] = @ + 1,
                          !.flight = @ \cup {[key |-> key, ordinal |-> seq.sent[key]]}]
    /\ UNCHANGED <<pvars, svars, rcv, alloc, translator, codec, sendHandle, recvHandle, endpoint, block,
                   seqHandle>>

\* Sequences::recv_packet, one turn of its loop: read_datagram returned
\* datagram d; its sequence is looked up, and receive_packet keeps it, moving
\* the high-water mark, or discards it.
SequencesRecvPacket(d) ==
    /\ d \in seq.flight
    /\ LET sequence == GetSequence(d.key)
           made == IF Live(d.key) THEN seq.made[d.key] ELSE seq.made[d.key] + 1
       IN IF ReceivePacket(sequence, d.ordinal)
          THEN seq' = [seq EXCEPT
                   !.flight = @ \ {d},
                   !.made[d.key] = made,
                   !.sequences = Insert(@, Slot(d.key),
                                        [sequence EXCEPT !.newest_received = d.ordinal]),
                   !.delivered = Append(@, [key |-> d.key, ordinal |-> d.ordinal,
                                            made |-> made])]
          ELSE seq' = [seq EXCEPT
                   !.flight = @ \ {d},
                   !.made[d.key] = made,
                   !.sequences = Insert(@, Slot(d.key), sequence),
                   !.dropped = @ \cup {d}]
    /\ UNCHANGED <<pvars, svars, rcv, alloc, translator, codec, sendHandle, recvHandle, endpoint, block,
                   seqHandle>>

\* Sequences::send_packet of this peer on key: next_send_ordinal of the
\* sequence looked up.
SequencesSendPacket(key) ==
    /\ Len(seq.out) < MaxLocalSends
    /\ LET sequence == GetSequence(key)
           made == IF Live(key) THEN seq.made[key] ELSE seq.made[key] + 1
       IN seq' = [seq EXCEPT
              !.made[key] = made,
              !.sequences = Insert(@, Slot(key),
                                   [sequence EXCEPT !.send_counter = @ + 1]),
              !.out = Append(@, [key |-> key, ordinal |-> sequence.send_counter])]
    /\ UNCHANGED <<pvars, svars, rcv, alloc, translator, codec, sendHandle, recvHandle, endpoint, block,
                   seqHandle>>

\* Time passes with no lookup: every entry of the cache gets older.
Tick ==
    /\ \E k \in DOMAIN seq.sequences : seq.sequences[k].idle < SEQUENCE_IDLE_DURATION
    /\ seq' = [seq EXCEPT !.sequences =
                  [k \in DOMAIN @ |->
                      [@[k] EXCEPT !.idle =
                          IF @ + TickSeconds < SEQUENCE_IDLE_DURATION
                          THEN @ + TickSeconds ELSE SEQUENCE_IDLE_DURATION]]]
    /\ UNCHANGED <<pvars, svars, rcv, alloc, translator, codec, sendHandle, recvHandle, endpoint, block,
                   seqHandle>>

SequencesInit ==
    /\ ProxyStart("Single")
    /\ SessionStart("good")
    /\ UnitStart

SequencesNext ==
    \/ \E key \in SequenceKeys : RemoteSendPacket(key)
    \/ \E d \in seq.flight : SequencesRecvPacket(d)
    \/ \E key \in SequenceKeys : SequencesSendPacket(key)
    \/ Tick

SpecSequences == SequencesInit /\ [][SequencesNext]_vars

(* ------------------------------------------- the sender's cache as well *)
\* The remote's Cache::get under time_to_idle, as Live for this peer.
RemoteLive(key) == seq.remote[key].idle < SEQUENCE_IDLE_DURATION

\* The remote's Sequences::send_packet on key with its own cache: the next
\* ordinal of the cached sequence, or 0 of a sequence created anew when
\* the entry has been idle for the whole duration.
RemoteSendsAnew(key) ==
    /\ seq.stamp < MaxRestartSends
    /\ LET ordinal == IF RemoteLive(key) THEN seq.sent[key] ELSE 0
           restarts == IF RemoteLive(key) THEN seq.remote[key].restarts
                       ELSE seq.remote[key].restarts + 1
       IN seq' = [seq EXCEPT
              !.sent[key] = ordinal + 1,
              !.remote[key] = [idle |-> 0, restarts |-> restarts],
              !.stamp = @ + 1,
              !.flight = @ \cup {[key |-> key, ordinal |-> ordinal,
                                  restarts |-> restarts, stamp |-> seq.stamp]}]
    /\ UNCHANGED <<pvars, svars, rcv, alloc, translator, codec, sendHandle, recvHandle, endpoint, block,
                   seqHandle>>

\* The datagram in flight that was sent first on its key.
Oldest(d) == \A e \in seq.flight : e.key = d.key => e.stamp >= d.stamp

\* Time passes at both peers with no lookup.
TickBoth ==
    /\ \/ \E k \in DOMAIN seq.sequences : seq.sequences[k].idle < SEQUENCE_IDLE_DURATION
       \/ \E k \in SequenceKeys : RemoteLive(k)
    /\ seq' = [seq EXCEPT
           !.sequences =
               [k \in DOMAIN @ |->
                   [@[k] EXCEPT !.idle =
                       IF @ + TickSeconds < SEQUENCE_IDLE_DURATION
                       THEN @ + TickSeconds ELSE SEQUENCE_IDLE_DURATION]],
           !.remote =
               [k \in SequenceKeys |->
                   [@[k] EXCEPT !.idle =
                       IF @ + TickSeconds < SEQUENCE_IDLE_DURATION
                       THEN @ + TickSeconds ELSE SEQUENCE_IDLE_DURATION]]]
    /\ UNCHANGED <<pvars, svars, rcv, alloc, translator, codec, sendHandle, recvHandle, endpoint, block,
                   seqHandle>>

\* Both peers' caches, and datagrams that arrive in the order they were
\* sent in on each key.
RestartNext ==
    \/ \E key \in SequenceKeys : RemoteSendsAnew(key)
    \/ \E d \in seq.flight : Oldest(d) /\ SequencesRecvPacket(d)
    \/ \E key \in SequenceKeys : SequencesSendPacket(key)
    \/ TickBoth

SpecRestart == SequencesInit /\ [][RestartNext]_vars

(* ====================================================== SequencesHandle *)
\* The largest datagram the connection takes (Connection::max_datagram_size
\* at the time of the send), in the units of DatagramSizes.
DatagramLimit == 2

\* The sizes of the encoded datagrams of the packets sent.
DatagramSizes == 1..(DatagramLimit + 1)

\* Connection::send_datagram: Err(SendDatagramError::TooLarge) for a
\* datagram over the limit, otherwise the datagram is queued for sending.
send_datagram(size) == IF size > DatagramLimit THEN "Err" ELSE "Ok"

\* SequencesHandle::send_packet up to its wait for the completion: the
\* packet goes to the outbound channel, or the channel is disconnected
\* because the outbound task has ended.
SeqHandleSendPacket(size) ==
    /\ Len(seqHandle.calls) < MaxHandleSends
    /\ Len(seqHandle.queue) < SEQUENCE_CHANNEL_CAPACITY
    /\ IF seqHandle.task = "running"
       THEN seqHandle' = [seqHandle EXCEPT
                !.calls = Append(@, [size |-> size, result |-> "sent"]),
                !.queue = Append(@, Len(seqHandle.calls) + 1)]
       ELSE seqHandle' = [seqHandle EXCEPT
                !.calls = Append(@, [size |-> size, result |-> "Err"])]
    /\ UNCHANGED <<pvars, svars, rcv, seq, alloc, translator, codec, sendHandle, recvHandle,
                   endpoint, block>>

\* One turn of the outbound task: Sequences::send_packet on the next
\* packet of the channel, the result to the caller, and the end of the
\* task on an error.  The calls still queued then get their error if the
\* channel drops what it holds (drained), or stay without a result.
SeqHandleOutbound ==
    /\ seqHandle.task = "running"
    /\ seqHandle.queue # <<>>
    /\ LET c == Head(seqHandle.queue)
           result == send_datagram(seqHandle.calls[c].size)
       IN IF result = "Ok"
          THEN seqHandle' = [seqHandle EXCEPT
                   !.queue = Tail(@),
                   !.calls[c].result = "Ok",
                   !.datagrams = Append(@, c)]
          ELSE \E drained \in BOOLEAN :
                  seqHandle' = [seqHandle EXCEPT
                      !.queue = <<>>,
                      !.task = "ended",
                      !.calls = [i \in DOMAIN @ |->
                          IF i = c \/ (drained /\ @[i].result = "sent")
                          THEN [@[i] EXCEPT !.result = "Err"] ELSE @[i]]]
    /\ UNCHANGED <<pvars, svars, rcv, seq, alloc, translator, codec, sendHandle, recvHandle,
                   endpoint, block>>

SeqHandleInit ==
    /\ ProxyStart("Single")
    /\ SessionStart("good")
    /\ UnitStart

SeqHandleNext ==
    \/ \E size \in DatagramSizes : SeqHandleSendPacket(size)
    \/ SeqHandleOutbound

SpecSeqHandle == SeqHandleInit /\ [][SeqHandleNext]_vars

(* ====================================================== StreamAllocator *)
\* server::play packets put to the allocator: id is the entity id, the x of
\* the block a BlockUpdate changes, or the x of the chunk section an
\* UpdateSectionBlocks changes (z goes the same way as x).
AllocatorPackets ==
    {Pkt("SystemChatMessage", 0, 0), Pkt("KeepAlive", 0, 0), Pkt("Particle", 0, 0)}
    \cup {Pkt("EntityAnimation", e, 0) : e \in Entities}
    \cup {Pkt(k, 1, 0) : k \in ServerPositionFamily \cup {"SetEntityVelocity"}}
    \cup {Pkt("BlockUpdate", x, 0) : x \in {0, 1, 16}}
    \cup {Pkt("UpdateSectionBlocks", c, 0) : c \in {0, 1}}

\* client::play packets put to the client translator's allocator.
ClientAllocatorPackets ==
    {Pkt("ChatMessage", 0, 0), Pkt("ChatCommand", 0, 0), Pkt("KeepAlive", 0, 0),
     Pkt("Pong", 0, 0), Pkt("SetPlayerPosition", 0, 0)}

\* A cache that does not count a read as a use.
NotAccessed(last, now) == last

\* Cache::get: the entry read was last used now.
Accessed(last, now) == now

\* Cache::get under time_to_idle: is the key's entry there.
Hit(cache, key) ==
    /\ key \in DOMAIN cache
    /\ alloc.clock - cache[key].last < STREAM_IDLE_DURATION

\* allocate_stream_for with the allocator lock held from the lookup to the
\* insert: the shared stream, a stream opened for this packet alone, the
\* cached stream of the key (entity_stream, block_update_stream), which a
\* miss opens and inserts, or the sequence key.
AllocatorLookup(p) ==
    /\ Len(alloc.log) < MaxAllocations
    /\ LET a == AllocateStreamFor(alloc.side, p)
           keyed == a.type \in {"Entity", "Block"}
           cache == IF a.type = "Entity" THEN alloc.entity_streams
                    ELSE alloc.block_update_streams
           hit == keyed /\ Hit(cache, a.key)
           opens == a.type = "New" \/ (keyed /\ ~hit)
           s == CASE a.type = "Shared" -> a.key
                  [] a.type = "Sequence" -> 0
                  [] hit -> cache[a.key].stream
                  [] OTHER -> alloc.opened + 1
           entry == [stream |-> s,
                     last |-> IF hit THEN Accessed(cache[a.key].last, alloc.clock)
                              ELSE alloc.clock]
       IN alloc' = [alloc EXCEPT
              !.opened = IF opens THEN @ + 1 ELSE @,
              !.entity_streams = IF a.type = "Entity" THEN Insert(@, a.key, entry) ELSE @,
              !.block_update_streams = IF a.type = "Block" THEN Insert(@, a.key, entry) ELSE @,
              !.log = Append(@, [packet |-> p, type |-> a.type, key |-> a.key,
                                 stream |-> s, hit |-> hit, at |-> alloc.clock,
                                 opened |-> IF opens THEN alloc.opened + 1 ELSE alloc.opened])]
    /\ UNCHANGED <<pvars, svars, rcv, seq, translator, codec, sendHandle, recvHandle, endpoint, block,
                   seqHandle>>

\* Time passes with no lookup.
AllocatorTick ==
    /\ alloc.clock < MaxSeconds
    /\ alloc' = [alloc EXCEPT !.clock = @ + TickSeconds]
    /\ UNCHANGED <<pvars, svars, rcv, seq, translator, codec, sendHandle, recvHandle, endpoint, block,
                   seqHandle>>

AllocatorInit ==
    /\ ProxyStart("Single")
    /\ SessionStart("good")
    /\ RecvStart("Tcp")
    /\ SequencesStart
    /\ \E e \in {"PlayServer", "PlayClient"} : AllocatorStart(e)
    /\ TranslatorStart
    /\ CodecStart("Optimized", 0)
    /\ SendHandleStart
    /\ RecvHandleStart
    /\ EndpointStart("Vanilla", "recv")
    /\ BlockStart(0, 0, 0)
    /\ SeqHandleStart

AllocatorNext ==
    \/ \E p \in IF alloc.side = "PlayServer" THEN AllocatorPackets
                 ELSE ClientAllocatorPackets : AllocatorLookup(p)
    \/ AllocatorTick

SpecAllocator == AllocatorInit /\ [][AllocatorNext]_vars

(* ========================================================== recv_packet *)
\* encode_packet: the frame of packet k as a codec writes it: a length prefix, here of one
\* byte, and a body of that many bytes.
Encode(k) == <<2, k, k>>

\* The frames of packets ids one after the other.
EncodeAll(ids) ==
    [i \in 1..(3 * Len(ids)) |-> Encode(ids[(i + 2) \div 3])[((i - 1) % 3) + 1]]

\* decode_packet of VanillaCodec and of OptimizedCodec on the read buffer:
\* read_var_int()? is an error on a buffer that holds no length prefix, a
\* body shorter than the prefix says is "not enough data", and a whole frame
\* is decoded and drained from the buffer.
DecodePacket(buf) ==
    IF buf = <<>>
    THEN [result |-> "Err", packet |-> <<>>, rest |-> buf]
    ELSE IF Len(buf) - 1 < buf[1]
         THEN [result |-> "None", packet |-> <<>>, rest |-> buf]
         ELSE [result |-> "Some", packet |-> SubSeq(buf, 2, buf[1] + 1),
               rest |-> SubSeq(buf, buf[1] + 2, Len(buf))]

\* anyhow::Result<RecvPacket>
Ok(p) == [ok |-> TRUE, packet |-> p]

Err == [ok |-> FALSE, packet |-> <<>>]

\* A recv_packet of the endpoint has returned an error: the proxy loop ends
\* with it and the endpoint is not polled again.
Errored == \E i \in 1..Len(rcv.returned) : ~rcv.returned[i].ok

\* The remote writes the frame of its next packet, on its socket or on a
\* unidirectional stream, which a first write makes visible to accept_uni.
RemoteWrite ==
    /\ rcv.frames < MaxFrames
    /\ \E s \in 1..(Len(rcv.wire) + 1) :
          /\ s \notin rcv.fin
          /\ s > Len(rcv.wire) =>
                /\ rcv.io # "Tcp"
                /\ Len(rcv.wire) < (IF rcv.io = "Single" THEN 1 ELSE MaxStreams)
          /\ LET k == rcv.frames + 1
             IN rcv' = [rcv EXCEPT
                    !.frames = k,
                    !.wire = IF s > Len(@) THEN Append(@, Encode(k))
                             ELSE [@ EXCEPT ![s] = @ \o Encode(k)],
                    !.sentOn = IF s > Len(@) THEN Append(@, <<k>>)
                               ELSE [@ EXCEPT ![s] = Append(@, k)]]
    /\ UNCHANGED <<pvars, svars, seq, alloc, translator, codec, sendHandle, recvHandle, endpoint, block,
                   seqHandle>>

\* The receive task of SequencesHandle hands a datagram's packet, one that
\* Sequence::receive_packet kept, to the inbound channel.
RemoteDatagram ==
    /\ rcv.io = "Play"
    /\ rcv.dgrams < MaxDatagrams
    /\ Len(rcv.inbound) < SEQUENCE_CHANNEL_CAPACITY
    /\ rcv' = [rcv EXCEPT !.dgrams = @ + 1,
                          !.inbound = Append(@, Ok(<<10 + rcv.dgrams + 1>>))]
    /\ UNCHANGED <<pvars, svars, seq, alloc, translator, codec, sendHandle, recvHandle, endpoint, block,
                   seqHandle>>

\* VanillaPacketIo::recv_packet, one turn of its loop with both locks held:
\* decode_packet()? returns a packet or the error; with not enough data the
\* future awaits read, and what read returns goes into the codec at once.
VanillaRecvPacket ==
    /\ rcv.io = "Tcp"
    /\ ~Errored
    /\ LET d == DecodePacket(rcv.read_buffer[1])
       IN CASE d.result = "Err" ->
                 rcv' = [rcv EXCEPT !.returned = Append(@, Err), !.call = "none"]
            [] d.result = "Some" ->
                 rcv' = [rcv EXCEPT !.returned = Append(@, Ok(d.packet)),
                                    !.read_buffer[1] = d.rest,
                                    !.call = "none"]
            [] OTHER ->
                 IF rcv.wire[1] = <<>>
                 THEN /\ rcv.call = "none"
                      /\ rcv' = [rcv EXCEPT !.call = "pending"]
                 ELSE \E n \in 1..Len(rcv.wire[1]) :
                         rcv' = [rcv EXCEPT
                             !.wire[1] = SubSeq(@, n + 1, Len(@)),
                             !.read_buffer[1] = @ \o SubSeq(rcv.wire[1], 1, n),
                             !.call = "pending"]
    /\ UNCHANGED <<pvars, svars, seq, alloc, translator, codec, sendHandle, recvHandle, endpoint, block,
                   seqHandle>>

\* RecvStreamHandle::accept: accept_uni returned the next stream the remote
\* made visible, and from_stream spawned its driver with a fresh codec.
Accept(r) ==
    [r EXCEPT !.driver = Append(@, "running"),
              !.read_buffer = Append(@, <<>>),
              !.recv_data = Append(@, <<>>),
              !.call = "pending"]

\* A recv_packet call returns result x.
Returns(r, x) == [r EXCEPT !.returned = Append(@, x), !.call = "none"]

\* SingleQuicPacketIo::recv_packet, one poll: with no stream yet it awaits
\* accept under the recv_stream lock, then it awaits the handle's channel;
\* a channel closed by the driver is "end of stream".
SingleRecvPacket ==
    /\ rcv.io = "Single"
    /\ ~Errored
    /\ IF Len(rcv.driver) = 0
       THEN IF Len(rcv.wire) > 0
            THEN rcv' = Accept(rcv)
            ELSE rcv.call = "none" /\ rcv' = [rcv EXCEPT !.call = "pending"]
       ELSE IF rcv.recv_data[1] # <<>>
            THEN rcv' = [Returns(rcv, Head(rcv.recv_data[1])) EXCEPT
                            !.recv_data[1] = Tail(@)]
            ELSE IF rcv.driver[1] = "ended"
                 THEN rcv' = Returns(rcv, Err)
                 ELSE rcv.call = "none" /\ rcv' = [rcv EXCEPT !.call = "pending"]
    /\ UNCHANGED <<pvars, svars, seq, alloc, translator, codec, sendHandle, recvHandle, endpoint, block,
                   seqHandle>>

\* QuicPacketIo::recv_packet, one poll of its select! over the sequence
\* transport and QuicReceiver::recv_packet, whose own select! takes the next
\* result of the accepted streams or accepts one more stream and goes on.
PlayRecvPacket ==
    /\ rcv.io = "Play"
    /\ ~Errored
    /\ \/ /\ rcv.inbound # <<>>
          /\ rcv' = [Returns(rcv, Head(rcv.inbound)) EXCEPT !.inbound = Tail(@)]
       \/ /\ rcv.stream_receives # <<>>
          /\ rcv' = [Returns(rcv, Head(rcv.stream_receives)) EXCEPT
                        !.stream_receives = Tail(@)]
       \/ /\ Len(rcv.driver) < Len(rcv.wire)
          /\ rcv' = Accept(rcv)
       \/ /\ rcv.inbound = <<>> /\ rcv.stream_receives = <<>>
          /\ Len(rcv.driver) = Len(rcv.wire)
          /\ rcv.call = "none"
          /\ rcv' = [rcv EXCEPT !.call = "pending"]
    /\ UNCHANGED <<pvars, svars, seq, alloc, translator, codec, sendHandle, recvHandle, endpoint, block,
                   seqHandle>>

\* drive_recv_stream of accepted stream s, one step: decode_packet, and its
\* result or its error sent to the handle's channel, the error ending the
\* driver; with not enough data a read of the stream and give_data, and at
\* the end of a finished stream the driver returns and drops its Sender.
DriveRecvStream(s) ==
    /\ rcv.driver[s] = "running"
    /\ LET d == DecodePacket(rcv.read_buffer[s])
       IN CASE d.result = "Err" ->
                 /\ Len(rcv.recv_data[s]) < RECV_CHANNEL_CAPACITY
                 /\ rcv' = [rcv EXCEPT !.recv_data[s] = Append(@, Err),
                                       !.driver[s] = "ended"]
            [] d.result = "Some" ->
                 /\ Len(rcv.recv_data[s]) < RECV_CHANNEL_CAPACITY
                 /\ rcv' = [rcv EXCEPT !.recv_data[s] = Append(@, Ok(d.packet)),
                                       !.read_buffer[s] = d.rest]
            [] OTHER ->
                 IF rcv.wire[s] = <<>>
                 THEN /\ s \in rcv.fin
                      /\ rcv' = [rcv EXCEPT !.driver[s] = "ended"]
                 ELSE \E n \in 1..Len(rcv.wire[s]) :
                         rcv' = [rcv EXCEPT
                             !.wire[s] = SubSeq(@, n + 1, Len(@)),
                             !.read_buffer[s] = @ \o SubSeq(rcv.wire[s], 1, n)]
    /\ UNCHANGED <<pvars, svars, seq, alloc, translator, codec, sendHandle, recvHandle, endpoint, block,
                   seqHandle>>

\* The task QuicReceiver::recv_packet spawned for accepted stream s moves the
\* handle's next result to stream_receives.
Forward(s) ==
    /\ rcv.io = "Play"
    /\ rcv.recv_data[s] # <<>>
    /\ Len(rcv.stream_receives) < STREAM_RECEIVES_CAPACITY
    /\ rcv' = [rcv EXCEPT !.recv_data[s] = Tail(@),
                          !.stream_receives = Append(@, Head(rcv.recv_data[s]))]
    /\ UNCHANGED <<pvars, svars, seq, alloc, translator, codec, sendHandle, recvHandle, endpoint, block,
                   seqHandle>>

\* The other arm of Proxy::run's select! completed first: the pending
\* recv_packet future is dropped, and with it the locks it held.
Cancel ==
    /\ rcv.call = "pending"
    /\ rcv' = [rcv EXCEPT !.call = "none", !.cancelled = TRUE]
    /\ UNCHANGED <<pvars, svars, seq, alloc, translator, codec, sendHandle, recvHandle, endpoint, block,
                   seqHandle>>

Drivers == \E s \in 1..Len(rcv.driver) : DriveRecvStream(s) \/ Forward(s)

RecvInit ==
    /\ ProxyStart("Single")
    /\ SessionStart("good")
    /\ \E e \in {"Tcp", "Single", "Play"} : RecvStart(e)
    /\ SequencesStart
    /\ AllocatorStart("PlayServer")
    /\ TranslatorStart
    /\ CodecStart("Optimized", 0)
    /\ SendHandleStart
    /\ RecvHandleStart
    /\ EndpointStart("Vanilla", "recv")
    /\ BlockStart(0, 0, 0)
    /\ SeqHandleStart

RecvNext ==
    \/ RemoteWrite
    \/ RemoteDatagram
    \/ VanillaRecvPacket
    \/ SingleRecvPacket
    \/ PlayRecvPacket
    \/ Drivers
    \/ Cancel

SpecRecv == RecvInit /\ [][RecvNext]_vars

(* ------------------------------------- streams that end, in Play state *)
\* The remote's writer task of stream s has seen its channel close (the
\* allocator's cache let the handle go, or it was a stream for one packet)
\* and the SendStream is dropped: the stream is finished after its last
\* frame.
RemoteFinishes(s) ==
    /\ s <= Len(rcv.wire)
    /\ s \notin rcv.fin
    /\ rcv' = [rcv EXCEPT !.fin = @ \cup {s}]
    /\ UNCHANGED <<pvars, svars, seq, alloc, translator, codec, sendHandle, recvHandle, endpoint, block,
                   seqHandle>>

PlayEndInit ==
    /\ ProxyStart("Single")
    /\ SessionStart("good")
    /\ RecvStart("Play")
    /\ SequencesStart
    /\ AllocatorStart("PlayServer")
    /\ TranslatorStart
    /\ CodecStart("Optimized", 0)
    /\ SendHandleStart
    /\ RecvHandleStart
    /\ EndpointStart("Vanilla", "recv")
    /\ BlockStart(0, 0, 0)
    /\ SeqHandleStart

PlayEndNext ==
    \/ RemoteWrite
    \/ RemoteDatagram
    \/ \E s \in 1..MaxStreams : RemoteFinishes(s)
    \/ PlayRecvPacket
    \/ Drivers
    \/ Cancel

SpecPlayEnd == PlayEndInit /\ [][PlayEndNext]_vars

(* ===================================================== PacketTranslator *)
\* A coordinate is an f64 that is a whole number of 1/4096ths of a block and
\* is kept as that number (sums of such values are exact in f64 far beyond the
\* world's size); an angle is kept as a whole number.
Blocks(n) == n * 4096

\* f64::from(delta) / 4096.0, in 1/4096ths.
convert_delta(delta) == delta

\* impl From<(f64, f64, f64, f32, f32)> for EntityPosition
From(value) ==
    [x |-> value[1], y |-> value[2], z |-> value[3],
     pitch |-> value[4], yaw |-> value[5]]

\* impl Add<EntityPositionDelta> for EntityPosition
Add(self, rhs) ==
    [x |-> self.x + convert_delta(rhs.dx),
     y |-> self.y + convert_delta(rhs.dy),
     z |-> self.z + convert_delta(rhs.dz),
     yaw |-> self.yaw,
     pitch |-> self.pitch]

\* server::play packets with the fields translate_packet reads.  The id of
\* a RemoveEntities is entities[0], the one the allocator looks at.
SpawnEntity(i, x, y, z, pitch, yaw) ==
    [kind |-> "SpawnEntity", id |-> i, x |-> x, y |-> y, z |-> z,
     pitch |-> pitch, yaw |-> yaw]
SpawnExperienceOrb(i, x, y, z) ==
    [kind |-> "SpawnExperienceOrb", id |-> i, x |-> x, y |-> y, z |-> z]
TeleportEntity(i, x, y, z, yaw, pitch, on_ground) ==
    [kind |-> "TeleportEntity", id |-> i, x |-> x, y |-> y, z |-> z,
     yaw |-> yaw, pitch |-> pitch, on_ground |-> on_ground]
UpdateEntityPosition(i, dx, dy, dz, on_ground) ==
    [kind |-> "UpdateEntityPosition", id |-> i, delta_x |-> dx, delta_y |-> dy,
     delta_z |-> dz, on_ground |-> on_ground]
UpdateEntityPositionAndRotation(i, dx, dy, dz, yaw, pitch, on_ground) ==
    [kind |-> "UpdateEntityPositionAndRotation", id |-> i, delta_x |-> dx,
     delta_y |-> dy, delta_z |-> dz, yaw |-> yaw, pitch |-> pitch,
     on_ground |-> on_ground]
UpdateEntityRotation(i, yaw, pitch, on_ground) ==
    [kind |-> "UpdateEntityRotation", id |-> i, yaw |-> yaw, pitch |-> pitch,
     on_ground |-> on_ground]
RemoveEntities(entities) ==
    [kind |-> "RemoveEntities", id |-> entities[1], entities |-> entities]

\* The packets the destination server sends in a run of the model.
TranslatorPackets ==
    {SpawnEntity(1, Blocks(0), Blocks(64), Blocks(-3), 10, 20),
     SpawnExperienceOrb(1, Blocks(5), Blocks(6), Blocks(7)),
     TeleportEntity(1, Blocks(8), 1, -1, 30, 40, TRUE),
     UpdateEntityPosition(1, 4096, 0, -1, TRUE),
     UpdateEntityPosition(1, -32768, 32767, 2, FALSE),
     UpdateEntityPositionAndRotation(1, 1, 2, 3, 50, 60, TRUE),
     UpdateEntityRotation(1, 70, 80, FALSE),
     SpawnEntity(2, Blocks(1), Blocks(2), Blocks(3), 15, 25),
     UpdateEntityPosition(2, 4096, 0, -1, TRUE),
     RemoveEntities(<<1>>), RemoveEntities(<<2, 1>>),
     [kind |-> "Respawn", id |-> 0], [kind |-> "SystemChatMessage", id |-> 0]}

\* Option: None, Some(x), and unwrap_or.
None == <<>>
Some(x) == <<x>>
UnwrapOr(opt, default) == IF opt = None THEN default ELSE opt[1]

\* unload_entity for each of the listed ids.
UnloadAll(positions, entities) ==
    [j \in DOMAIN positions \ Range(entities) |-> positions[j]]

\* A translator whose table survives a respawn.
ClearNothing(positions) == positions

\* PacketTranslator::clear_entities
clear_entities(positions) == <<>>

\* A translator that answers a relative update of an entity it does not know
\* with a teleport to the update's deltas.
UnknownPosition(positions, entity_id) == Some(From(<<0, 0, 0, 0, 0>>))

\* PacketTranslator::entity_position
EntityPositionOf(positions, entity_id) ==
    IF entity_id \in DOMAIN positions THEN Some(positions[entity_id]) ELSE None

\* A translator that keeps the angles of the spawn for ever.
KeepRotation(positions, packet) == positions

\* translate_packet's first step: a packet with a rotation refreshes the
\* pitch and yaw of an entity whose position is known.
RefreshRotation(positions, packet) ==
    LET old_pos == IF packet.kind \in {"UpdateEntityPositionAndRotation",
                                        "UpdateEntityRotation"}
                   THEN EntityPositionOf(positions, packet.id)
                   ELSE None
    IN IF old_pos # None
       THEN Insert(positions, packet.id,
                   [old_pos[1] EXCEPT !.pitch = packet.pitch, !.yaw = packet.yaw])
       ELSE positions

\* TranslatePacket<side::Server>::translate_packet with every field it
\* reads: the Option it returns and entity_positions afterwards.
translate_packet(table, packet) ==
    LET positions == RefreshRotation(table, packet)
        untranslated(t) == [result |-> None, positions |-> t]
    IN CASE packet.kind = "SpawnEntity" ->
                untranslated(Insert(positions, packet.id,
                    From(<<packet.x, packet.y, packet.z, packet.pitch, packet.yaw>>)))
         [] packet.kind = "SpawnExperienceOrb" ->
                untranslated(Insert(positions, packet.id,
                    From(<<packet.x, packet.y, packet.z, 0, 0>>)))
         [] packet.kind = "TeleportEntity" ->
                untranslated(Insert(positions, packet.id,
                    From(<<packet.x, packet.y, packet.z, packet.pitch, packet.yaw>>)))
         [] packet.kind \in {"UpdateEntityPosition", "UpdateEntityPositionAndRotation"} ->
                LET old_pos == EntityPositionOf(positions, packet.id)
                    new_pos == Add(old_pos[1], [dx |-> packet.delta_x,
                                                dy |-> packet.delta_y,
                                                dz |-> packet.delta_z])
                IN IF old_pos = None
                   THEN untranslated(positions)
                   ELSE [result |-> Some(TeleportEntity(packet.id, new_pos.x,
                                         new_pos.y, new_pos.z, new_pos.yaw,
                                         new_pos.pitch, packet.on_ground)),
                         positions |-> Insert(positions, packet.id, new_pos)]
         [] packet.kind = "RemoveEntities" ->
                untranslated(UnloadAll(positions, packet.entities))
         [] packet.kind = "Respawn" -> untranslated(clear_entities(positions))
         [] OTHER -> untranslated(positions)

\* QuicPacketIo<side::Server>::send_packet up to the send: the translator's
\* answer, the packet that goes on in its place or the packet itself, and
\* what the allocator makes of the packet that goes on.
TranslatorSendPacket(p) ==
    /\ Len(translator.log) < MaxTranslations
    /\ LET t == translate_packet(translator.entity_positions, p)
           packet == UnwrapOr(t.result, p)
       IN translator' = [entity_positions |-> t.positions,
                 log |-> Append(translator.log,
                            [packet |-> p,
                             result |-> t.result,
                             sent |-> <<packet>>,
                             allocation |-> AllocateServer(packet),
                             before |-> translator.entity_positions,
                             after |-> t.positions])]
    /\ UNCHANGED <<pvars, svars, rcv, seq, alloc, codec, sendHandle, recvHandle, endpoint, block,
                   seqHandle>>

TranslatorInit ==
    /\ ProxyStart("Single")
    /\ SessionStart("good")
    /\ UnitStart

TranslatorNext == \E p \in TranslatorPackets : TranslatorSendPacket(p)

SpecTranslator == TranslatorInit /\ [][TranslatorNext]_vars

(* ================================================================ codecs *)
\* A byte is a number in 0..255 and a buffer a sequence of bytes.
Drop(buffer, n) == SubSeq(buffer, n + 1, Len(buffer))
Take(buffer, n) == SubSeq(buffer, 1, n)

\* Encoder::write_var_int from the u32 x on: seven bits a byte, low bits
\* first, the top bit set on every byte but the last.
RECURSIVE WriteBytes(_)
WriteBytes(x) ==
    IF x \div 128 = 0 THEN <<x % 128>>
    ELSE <<(x % 128) + 128>> \o WriteBytes(x \div 128)

\* Encoder::write_var_int of the i32 x: bytemuck::cast makes a negative x
\* the u32 x + 2^32, whose bits above the low seven are x \div 128 + 2^25.
write_var_int(x) ==
    IF x >= 0 THEN WriteBytes(x)
    ELSE <<(x % 128) + 128>> \o WriteBytes((x \div 128) + 33554432)

\* var_int_size
var_int_size(x) == Len(write_var_int(x))

\* value.overflowing_shl(7 * num_read).0 on an i32 for num_read in 0..4: the
\* fifth byte keeps its low four bits, the fourth of which is the sign.
Shl(value, num_read) ==
    CASE num_read = 0 -> value
      [] num_read = 1 -> value * 128
      [] num_read = 2 -> value * 16384
      [] num_read = 3 -> value * 2097152
      [] OTHER -> (IF value % 16 >= 8 THEN (value % 16) - 16 ELSE value % 16)
                  * 268435456

\* Decoder::read_var_int_with_size after num_read bytes gave result.
RECURSIVE ReadBytes(_, _, _)
ReadBytes(buffer, num_read, result) ==
    IF num_read >= Len(buffer)
    THEN [ok |-> FALSE, error |-> "EndOfStream", value |-> 0, size |-> 0]
    ELSE IF num_read + 1 > 5
    THEN [ok |-> FALSE, error |-> "VarIntTooLong", value |-> 0, size |-> 0]
    ELSE LET read == buffer[num_read + 1]
             next == result + Shl(read % 128, num_read)
         IN IF read < 128
            THEN [ok |-> TRUE, error |-> "", value |-> next, size |-> num_read + 1]
            ELSE ReadBytes(buffer, num_read + 1, next)

\* Decoder::read_var_int_with_size
read_var_int_with_size(buffer) == ReadBytes(buffer, 0, 0)

\* A packet is its wire id and the bytes of its fields;  Encode for Packet
\* writes the id as a VarInt and then the fields.
EncodePlain(packet) == write_var_int(packet.id) \o packet.data

\* The ids of the catalog the decoder decodes with.
PacketIds == {1, 2, 3}

\* Decode for Packet: the discriminant, then the fields, here all the bytes
\* that are left; a discriminant outside the catalog is an error.
DecodePlain(plain) ==
    LET discriminant == read_var_int_with_size(plain)
    IN IF ~discriminant.ok \/ discriminant.value \notin PacketIds
       THEN [ok |-> FALSE, packet |-> <<>>]
       ELSE [ok |-> TRUE,
             packet |-> <<[id |-> discriminant.value,
                           data |-> Drop(plain, discriminant.size)]>>]

\* flate2's zlib and zstd's bulk compression, by what the codecs need of
\* them: the output differs from the input, decompression gives the input
\* back and fails on bytes that no compression made.
ZLIB == 120
ZSTD == 181
Compress(tag, plain) == <<tag>> \o [i \in 1..Len(plain) |-> (plain[i] + 1) % 256]
Decompress(tag, data) ==
    IF data = <<>> \/ data[1] # tag THEN [ok |-> FALSE, plain |-> <<>>]
    ELSE [ok |-> TRUE, plain |-> [i \in 1..(Len(data) - 1) |-> (data[i + 1] + 255) % 256]]

\* A compressed stream of five bytes that holds the byte id followed by n
\* zero bytes, n below 2^24.
Bomb(tag, id, n) == <<tag + 1, id, n \div 65536, (n \div 256) % 256, n % 256>>

\* What a compressed stream holds: bytes, followed by a number of zero bytes.
Stream(tag, data) ==
    IF Len(data) = 5 /\ data[1] = tag + 1
    THEN [ok |-> TRUE, plain |-> <<data[2]>>,
          zeros |-> data[3] * 65536 + data[4] * 256 + data[5]]
    ELSE [ok |-> Decompress(tag, data).ok, plain |-> Decompress(tag, data).plain,
          zeros |-> 0]

Min(a, b) == IF a < b THEN a ELSE b

\* flate2's ZlibDecoder read through take(limit) by read_to_end: the first
\* limit bytes of what the stream holds, and no error when it holds more.
TakeReadToEnd(stream, limit) ==
    [ok |-> stream.ok,
     plain |-> Take(stream.plain, Min(Len(stream.plain), limit)),
     zeros |-> IF Len(stream.plain) >= limit THEN 0
               ELSE Min(stream.zeros, limit - Len(stream.plain))]

\* zstd's bulk Decompressor::decompress(data, capacity): an error when the
\* stream holds more than capacity bytes.
BulkDecompress(stream, capacity) ==
    IF stream.ok /\ Len(stream.plain) + stream.zeros > capacity
    THEN [ok |-> FALSE, plain |-> <<>>, zeros |-> 0]
    ELSE stream

\* A packet decoded from plain data that ends in zeros zero bytes: they are
\* the end of its fields.
Fields(packet, zeros) ==
    IF zeros = 0 THEN packet
    ELSE [i \in DOMAIN packet |->
             [id |-> packet[i].id, data |-> packet[i].data, zeros |-> zeros]]

\* VanillaCodec::encode_packet with no encryption: with compression enabled
\* the buffer returned holds the VarInt of the length and nothing after it.
VanillaEncodePacket(packet, threshold) ==
    LET plain_buf == EncodePlain(packet)
        uncompressed_length == Len(plain_buf)
        compress == uncompressed_length >= threshold
        data_length == IF compress THEN uncompressed_length ELSE 0
        compressed_data == IF compress THEN Compress(ZLIB, plain_buf) ELSE plain_buf
    IN IF threshold # 0
       THEN write_var_int(var_int_size(data_length) + Len(compressed_data))
       ELSE write_var_int(uncompressed_length) \o plain_buf

\* The results of decode_packet: an error, not enough data, a packet; and
\* the read buffer afterwards.
Failure(buffer) == [result |-> "Err", packet |-> <<>>, read_buffer |-> buffer]
NeedMore(buffer) == [result |-> "None", packet |-> <<>>, read_buffer |-> buffer]
Decoded(packet, buffer) == [result |-> "Some", packet |-> packet, read_buffer |-> buffer]

\* A decoder that takes any declared length and waits for the body.
NoLimit(length) == FALSE

\* length > BUFFER_LIMIT
OverLimit(length) == length > BUFFER_LIMIT

\* VanillaCodec::decode_packet with no encryption.
VanillaDecodePacket(read_buffer, threshold) ==
    LET length == read_var_int_with_size(read_buffer)
        total_bytes == length.value + var_int_size(length.value)
        packet_contents == SubSeq(read_buffer, length.size + 1, total_bytes)
        uncompressed_length == read_var_int_with_size(packet_contents)
        inflated == TakeReadToEnd(
                        Stream(ZLIB, Drop(packet_contents, uncompressed_length.size)),
                        BUFFER_LIMIT)
        compressed == threshold # 0 /\ uncompressed_length.value # 0
        plain_data == CASE threshold = 0 -> packet_contents
                        [] uncompressed_length.value = 0 ->
                               Drop(packet_contents, uncompressed_length.size)
                        [] OTHER -> inflated.plain
        packet == DecodePlain(plain_data)
        fields == Fields(packet.packet, IF compressed THEN inflated.zeros ELSE 0)
    IN CASE ~length.ok \/ length.value < 0 -> Failure(read_buffer)
         [] OTHER ->
       CASE OverLimit(length.value) -> Failure(read_buffer)
         [] OTHER ->
       CASE length.value > Len(read_buffer) - length.size -> NeedMore(read_buffer)
         [] threshold # 0 /\ (~uncompressed_length.ok \/ uncompressed_length.value < 0)
                -> Failure(read_buffer)
         [] OTHER ->
       CASE threshold # 0 /\ uncompressed_length.value # 0 /\ ~inflated.ok
                -> Failure(read_buffer)
         [] ~packet.ok -> Failure(read_buffer)
         [] OTHER -> Decoded(fields, Drop(read_buffer, total_bytes))

\* OptimizedCodec::encode_packet
OptimizedEncodePacket(packet) ==
    LET plain_data == EncodePlain(packet)
        should_compress == Len(plain_data) >= COMPRESSION_THRESHOLD
        flags == IF should_compress THEN 1 ELSE 0
        encoded_data == IF should_compress THEN Compress(ZSTD, plain_data)
                        ELSE plain_data
    IN write_var_int(Len(encoded_data) + 1) \o <<flags>> \o encoded_data

\* OptimizedCodec::decode_packet
OptimizedDecodePacket(read_buffer) ==
    LET length == read_var_int_with_size(read_buffer)
        total_bytes_read == var_int_size(length.value) + length.value
        data == SubSeq(read_buffer, length.size + 1, total_bytes_read)
        inflated == BulkDecompress(Stream(ZSTD, Drop(data, 1)), BUFFER_LIMIT)
        packet == DecodePlain(IF data[1] = 1 THEN inflated.plain ELSE Drop(data, 1))
    IN CASE ~length.ok \/ length.value < 0 -> Failure(read_buffer)
         [] OTHER ->
       CASE OverLimit(length.value) -> Failure(read_buffer)
         [] OTHER ->
       CASE Len(read_buffer) - length.size < length.value -> NeedMore(read_buffer)
         [] length.value = 0 -> Failure(read_buffer)
         [] OTHER ->
       CASE data[1] \notin {0, 1} -> Failure(read_buffer)
         [] data[1] = 1 /\ ~inflated.ok -> Failure(read_buffer)
         [] ~packet.ok -> Failure(read_buffer)
         [] OTHER -> Decoded(Fields(packet.packet,
                                    IF data[1] = 1 THEN inflated.zeros ELSE 0),
                             Drop(read_buffer, total_bytes_read))

\* The packets the encoder is given: an id alone, two bytes of fields, and
\* fields long enough for a two-byte length prefix and for compression.
CodecPackets ==
    {[id |-> 1, data |-> <<>>], [id |-> 2, data |-> <<7, 8>>],
     [id |-> 3, data |-> [i \in 1..(COMPRESSION_THRESHOLD - 1) |-> 0]]}

\* Lengths a peer can declare in a frame's prefix without sending the body.
DeclaredLengths == {BUFFER_LIMIT - 1, BUFFER_LIMIT, BUFFER_LIMIT + 1, 2147483647}

\* Zero bytes that follow the packet id in compressed data: with the id the
\* data is 1 MiB less one byte, 1 MiB, 1 MiB and one byte, and 2 MiB.
InflatedLengths == {BUFFER_LIMIT - 2, BUFFER_LIMIT - 1, BUFFER_LIMIT, 2 * BUFFER_LIMIT - 1}

\* The other end encodes a packet and writes the frame.
CodecEncode(packet) ==
    /\ Len(codec.sent) < MaxEncoded
    /\ codec.declared < 0
    /\ LET frame == IF codec.kind = "Vanilla"
                    THEN VanillaEncodePacket(packet, codec.threshold)
                    ELSE OptimizedEncodePacket(packet)
       IN codec' = [codec EXCEPT !.sent = Append(@, packet),
                                 !.frames = Append(@, frame),
                                 !.wire = @ \o frame]
    /\ UNCHANGED <<pvars, svars, rcv, seq, alloc, translator, sendHandle, recvHandle, endpoint, block,
                   seqHandle>>

\* The other end writes the prefix of a frame of length bytes, and no body.
CodecDeclare(length) ==
    /\ codec.sent = <<>>
    /\ codec.declared < 0
    /\ codec' = [codec EXCEPT !.declared = length, !.wire = write_var_int(length)]
    /\ UNCHANGED <<pvars, svars, rcv, seq, alloc, translator, sendHandle, recvHandle, endpoint, block,
                   seqHandle>>

\* The other end writes a whole frame of compressed data that holds the
\* packet id 2 followed by n zero bytes.
CodecInflates(n) ==
    /\ codec.sent = <<>>
    /\ codec.declared < 0
    /\ codec.kind = "Vanilla" => codec.threshold # 0
    /\ LET rest == IF codec.kind = "Vanilla"
                   THEN write_var_int(n + 1) \o Bomb(ZLIB, 2, n)
                   ELSE <<1>> \o Bomb(ZSTD, 2, n)
       IN codec' = [codec EXCEPT !.declared = Len(rest),
                                 !.inflates = n + 1,
                                 !.wire = write_var_int(Len(rest)) \o rest]
    /\ UNCHANGED <<pvars, svars, rcv, seq, alloc, translator, sendHandle, recvHandle, endpoint, block,
                   seqHandle>>

\* give_data with the next bytes read from the transport: one or two, all
\* that were written, or all but the last.
GiveData(n) ==
    /\ codec.gives < MaxGives
    /\ n \in {1, 2, Len(codec.wire) - 1, Len(codec.wire)}
    /\ codec' = [codec EXCEPT !.wire = Drop(@, n),
                              !.given = @ + n,
                              !.gives = @ + 1,
                              !.read_buffer = @ \o Take(codec.wire, n)]
    /\ UNCHANGED <<pvars, svars, rcv, seq, alloc, translator, sendHandle, recvHandle, endpoint, block,
                   seqHandle>>

\* decode_packet; an error invalidates the stream and ends the decoding.
CodecDecodePacket ==
    /\ Len(codec.calls) < MaxDecodes
    /\ \A i \in 1..Len(codec.calls) : codec.calls[i].result # "Err"
    /\ LET r == IF codec.kind = "Vanilla"
                THEN VanillaDecodePacket(codec.read_buffer, codec.threshold)
                ELSE OptimizedDecodePacket(codec.read_buffer)
       IN codec' = [codec EXCEPT
              !.read_buffer = r.read_buffer,
              !.calls = Append(@, [given |-> codec.given,
                                   held |-> Len(codec.read_buffer),
                                   result |-> r.result,
                                   packet |-> r.packet,
                                   drained |-> Len(codec.read_buffer)
                                               - Len(r.read_buffer)])]
    /\ UNCHANGED <<pvars, svars, rcv, seq, alloc, translator, sendHandle, recvHandle, endpoint, block,
                   seqHandle>>

CodecInit ==
    /\ ProxyStart("Single")
    /\ SessionStart("good")
    /\ RecvStart("Tcp")
    /\ SequencesStart
    /\ AllocatorStart("PlayServer")
    /\ TranslatorStart
    /\ \/ CodecStart("Optimized", 0)
       \/ \E threshold \in {0, 2, 3} : CodecStart("Vanilla", threshold)
    /\ SendHandleStart
    /\ RecvHandleStart
    /\ EndpointStart("Vanilla", "recv")
    /\ BlockStart(0, 0, 0)
    /\ SeqHandleStart

CodecNext ==
    \/ \E packet \in CodecPackets : CodecEncode(packet)
    \/ \E length \in DeclaredLengths : CodecDeclare(length)
    \/ \E n \in InflatedLengths : CodecInflates(n)
    \/ \E n \in 1..Len(codec.wire) : GiveData(n)
    \/ CodecDecodePacket

SpecCodec == CodecInit /\ [][CodecNext]_vars

(* ===================================================== SendStreamHandle *)
\* The packets sent on the handle.
SendPackets == {[id |-> 1, data |-> <<>>], [id |-> 2, data |-> <<7, 8>>]}

\* The handle and its clone; both hold a Sender of the one channel.
Clones == {1, 2}

Calls == 1..MaxSends

\* The result of call c, "sent" while send_packet has not returned.
Completion(h, c, r) == [h EXCEPT !.calls[c].result = r]

RECURSIVE CompleteAll(_, _, _)
CompleteAll(h, cs, r) ==
    IF cs = <<>> THEN h ELSE CompleteAll(Completion(h, Head(cs), r), Tail(cs), r)

\* SendStreamHandle::send_packet up to its await of the completion: the
\* packet and the completion's sender go to the channel, or wait for room in
\* it.  With the receiver gone send_async returns the message, `.ok()` drops
\* it and with it the completion's sender, and the await is "stream dead".
SendHandleSendPacket(clone, packet) ==
    /\ Len(sendHandle.calls) < MaxSends
    /\ LET c == Len(sendHandle.calls) + 1
           call == [clone |-> clone, packet |-> packet, at |-> -1,
                    result |-> IF sendHandle.receiver = "open" THEN "sent" ELSE "Err"]
           h == [sendHandle EXCEPT !.calls = Append(@, call)]
       IN sendHandle' =
             CASE sendHandle.receiver # "open" -> h
               [] Len(sendHandle.chan) < SEND_CHANNEL_CAPACITY ->
                     [h EXCEPT !.chan = Append(@, c)]
               [] OTHER -> [h EXCEPT !.waiting = Append(@, c)]
    /\ UNCHANGED <<pvars, svars, rcv, seq, alloc, translator, codec, recvHandle, endpoint, block,
                   seqHandle>>

\* The writer task's recv_async: the oldest message of the channel, whose
\* place the oldest waiting sender's message takes.
WriterRecv ==
    /\ sendHandle.receiver = "open"
    /\ sendHandle.writing = 0
    /\ sendHandle.chan # <<>>
    /\ LET w == sendHandle.waiting
           rest == Tail(sendHandle.chan)
       IN sendHandle' = [sendHandle EXCEPT
              !.writing = Head(sendHandle.chan),
              !.chan = IF w = <<>> THEN rest ELSE Append(rest, Head(w)),
              !.waiting = IF w = <<>> THEN w ELSE Tail(w)]
    /\ UNCHANGED <<pvars, svars, rcv, seq, alloc, translator, codec, recvHandle, endpoint, block,
                   seqHandle>>

\* encode_packet and a write_all that returns Ok: the whole frame is on the
\* stream and the completion carries Ok.
WriterWrites ==
    /\ sendHandle.writing # 0
    /\ LET c == sendHandle.writing
           data == OptimizedEncodePacket(sendHandle.calls[c].packet)
       IN sendHandle' = [Completion(sendHandle, c, "Ok") EXCEPT
              !.calls[c].at = Len(sendHandle.wire),
              !.wire = @ \o data,
              !.writing = 0]
    /\ UNCHANGED <<pvars, svars, rcv, seq, alloc, translator, codec, recvHandle, endpoint, block,
                   seqHandle>>

\* write_all returns an error after n bytes of the frame: the completion
\* carries it and the writer leaves its loop, which drops the Receiver.  A
\* sender waiting for room gets its message back and drops it.  The messages
\* in the channel are out of the program's hands: it does not drain the
\* Receiver, so their completion senders are dropped when the channel
\* drops its queue, on disconnection (drained) or only with its last Sender,
\* which a handle used by a waiting send_packet keeps alive.
WriterFails(n, drained) ==
    /\ sendHandle.writing # 0
    /\ LET c == sendHandle.writing
           data == OptimizedEncodePacket(sendHandle.calls[c].packet)
           failed == CompleteAll(Completion(sendHandle, c, "Err"),
                                 sendHandle.waiting, "Err")
           h == IF drained THEN CompleteAll(failed, sendHandle.chan, "Err")
                ELSE failed
       IN /\ n < Len(data)
          /\ sendHandle' = [h EXCEPT
                 !.calls[c].at = Len(sendHandle.wire),
                 !.wire = @ \o Take(data, n),
                 !.writing = 0,
                 !.receiver = "dropped",
                 !.waiting = <<>>,
                 !.chan = IF drained THEN <<>> ELSE @]
    /\ UNCHANGED <<pvars, svars, rcv, seq, alloc, translator, codec, recvHandle, endpoint, block,
                   seqHandle>>

Writer ==
    \/ WriterRecv
    \/ WriterWrites
    \/ \E n \in 0..3, drained \in BOOLEAN : WriterFails(n, drained)

SendHandleInit ==
    /\ ProxyStart("Single")
    /\ SessionStart("good")
    /\ UnitStart

SendHandleNext ==
    \/ \E clone \in Clones, packet \in SendPackets : SendHandleSendPacket(clone, packet)
    \/ Writer

SpecSendHandle == SendHandleInit /\ [][SendHandleNext]_vars

\* The writer is a spawned task of its own: the runtime polls it whenever a
\* message is in its channel, and a write_all ends, sooner or later, with Ok
\* or with an error.
FairSendHandle == SpecSendHandle /\ WF_vars(Writer)

(* ===================================================== RecvStreamHandle *)
\* A frame no encoder writes: two bytes long, with a flags byte that is
\* neither 0 nor 1.
Garbage == <<2, 2, 0>>

\* The peer writes the frame of its next packet on the stream.
PeerWrites(packet) ==
    /\ Len(recvHandle.sent) < MaxPeerPackets
    /\ ~recvHandle.fin /\ ~recvHandle.reset /\ ~recvHandle.garbled
    /\ recvHandle' = [recvHandle EXCEPT
           !.sent = Append(@, packet),
           !.wire = @ \o OptimizedEncodePacket(packet)]
    /\ UNCHANGED <<pvars, svars, rcv, seq, alloc, translator, codec, sendHandle, endpoint, block,
                   seqHandle>>

\* A peer that does not keep to the protocol writes a malformed frame.
PeerGarbles ==
    /\ ~recvHandle.fin /\ ~recvHandle.reset /\ ~recvHandle.garbled
    /\ recvHandle' = [recvHandle EXCEPT !.garbled = TRUE, !.wire = @ \o Garbage]
    /\ UNCHANGED <<pvars, svars, rcv, seq, alloc, translator, codec, sendHandle, endpoint, block,
                   seqHandle>>

\* The peer finishes the stream after what it has written.
PeerFinishes ==
    /\ ~recvHandle.fin /\ ~recvHandle.reset
    /\ recvHandle' = [recvHandle EXCEPT !.fin = TRUE]
    /\ UNCHANGED <<pvars, svars, rcv, seq, alloc, translator, codec, sendHandle, endpoint, block,
                   seqHandle>>

\* The stream is reset or the connection is lost: reads fail from now on and
\* the bytes not yet read are gone.
PeerResets ==
    /\ ~recvHandle.fin /\ ~recvHandle.reset
    /\ recvHandle' = [recvHandle EXCEPT !.reset = TRUE, !.wire = <<>>]
    /\ UNCHANGED <<pvars, svars, rcv, seq, alloc, translator, codec, sendHandle, endpoint, block,
                   seqHandle>>

\* A result handed to the handle's channel.
Handed(result, packet) == [result |-> result, packet |-> packet]

\* decode_packet in drive_recv_stream's inner loop: a packet is sent to the
\* channel when it has room, "not enough data" leaves the loop for the read,
\* an error is sent to the channel and ends the task.
Decodes(h) ==
    LET r == OptimizedDecodePacket(h.read_buffer)
    IN CASE r.result = "Some" ->
              [h EXCEPT !.recv_data = Append(@, Handed("Some", r.packet)),
                        !.read_buffer = r.read_buffer]
         [] r.result = "None" -> [h EXCEPT !.driver = "read"]
         [] OTHER -> [h EXCEPT !.recv_data = Append(@, Handed("Err", <<>>)),
                               !.driver = "ended"]

\* drive_recv_stream's read: n bytes are given to the codec, the end of the
\* stream ends the task, an error is sent to the channel and ends the task.
Reads(h, n) ==
    CASE h.reset -> [h EXCEPT !.recv_data = Append(@, Handed("Err", <<>>)),
                              !.driver = "ended"]
      [] h.wire # <<>> -> [h EXCEPT !.wire = Drop(@, n),
                                    !.read_buffer = @ \o Take(h.wire, n),
                                    !.driver = "decode"]
      [] OTHER -> [h EXCEPT !.driver = "ended"]

\* The reader task, one step of drive_recv_stream: it waits for room in the
\* channel when it has a result to send, and in read while the stream has
\* no byte, no end and no error for it.
DriveRecvHandle(n) ==
    /\ recvHandle.driver # "ended"
    /\ IF recvHandle.driver = "decode"
       THEN /\ n = 1
            /\ recvHandle' = Decodes(recvHandle)
       ELSE /\ n <= Len(recvHandle.wire) \/ (n = 1 /\ (recvHandle.reset \/ recvHandle.fin))
            /\ recvHandle' = Reads(recvHandle, n)
    /\ Len(recvHandle'.recv_data) <= RECV_CHANNEL_CAPACITY
    /\ UNCHANGED <<pvars, svars, rcv, seq, alloc, translator, codec, sendHandle, endpoint, block,
                   seqHandle>>

\* RecvStreamHandle::recv_packet: the next result of the channel, and None
\* when the channel is empty and the reader task has dropped its Sender.
RecvHandleRecvPacket ==
    /\ Len(recvHandle.returned) < MaxRecvs
    /\ IF recvHandle.recv_data # <<>>
       THEN recvHandle' = [recvHandle EXCEPT
                !.recv_data = Tail(@),
                !.returned = Append(@, Head(recvHandle.recv_data))]
       ELSE /\ recvHandle.driver = "ended"
            /\ recvHandle' = [recvHandle EXCEPT
                   !.returned = Append(@, Handed("None", <<>>))]
    /\ UNCHANGED <<pvars, svars, rcv, seq, alloc, translator, codec, sendHandle, endpoint, block,
                   seqHandle>>

RecvHandleInit ==
    /\ ProxyStart("Single")
    /\ SessionStart("good")
    /\ UnitStart

RecvHandleNext ==
    \/ \E packet \in SendPackets : PeerWrites(packet)
    \/ PeerGarbles
    \/ PeerFinishes
    \/ PeerResets
    \/ \E n \in 1..RECV_BUFFER : DriveRecvHandle(n)
    \/ RecvHandleRecvPacket

SpecRecvHandle == RecvHandleInit /\ [][RecvHandleNext]_vars

(* ===================================================== switch_state *)
\* AES-128 in CFB8 mode, by what the codec needs of it: each byte is added
\* to a key stream byte that depends on the key and on the cipher text so
\* far (the register, which starts at the initialisation vector), so that
\* only a decryptor at the same position gives the plain text back.
KeyStream(key, register) == (key * 31 + register * 7 + 3) % 256

RECURSIVE Encrypted(_, _, _)
Encrypted(key, register, data) ==
    IF data = <<>> THEN <<>>
    ELSE LET c == (data[1] + KeyStream(key, register)) % 256
         IN <<c>> \o Encrypted(key, c, Tail(data))

RECURSIVE Decrypted(_, _, _)
Decrypted(key, register, data) ==
    IF data = <<>> THEN <<>>
    ELSE <<(data[1] + 256 - KeyStream(key, register)) % 256>>
             \o Decrypted(key, data[1], Tail(data))

RegisterAfter(register, cipher) ==
    IF cipher = <<>> THEN register ELSE cipher[Len(cipher)]

\* VanillaCodec::enable_encryption: the key is the initialisation vector of
\* both directions.
enable_encryption(self, key) ==
    [self EXCEPT !.encryption_state =
        <<[key |-> key, encryptor |-> key, decryptor |-> key]>>]

\* VanillaCodec::enable_compression
enable_compression(self, threshold) == [self EXCEPT !.compression_state = threshold]

\* A codec built anew for the new state.
FreshCodec(self) == NewCodec

\* VanillaCodec::switch_state and OptimizedCodec::switch_state: the fields
\* move to the codec of the new state.
switch_state(self) ==
    [read_buffer |-> self.read_buffer,
     encryption_state |-> self.encryption_state,
     compression_state |-> self.compression_state]

\* The end of encode_packet: the frame goes through the encryptor.
EncryptFrame(self, frame) ==
    IF self.encryption_state = <<>> THEN [codec |-> self, bytes |-> frame]
    ELSE LET e == self.encryption_state[1]
             bytes == Encrypted(e.key, e.encryptor, frame)
         IN [codec |-> [self EXCEPT !.encryption_state[1].encryptor =
                                        RegisterAfter(e.encryptor, bytes)],
             bytes |-> bytes]

\* VanillaCodec::give_data: the bytes go through the decryptor and to the
\* read buffer.
give_data(self, data) ==
    IF self.encryption_state = <<>>
    THEN [self EXCEPT !.read_buffer = @ \o data]
    ELSE LET e == self.encryption_state[1]
         IN [self EXCEPT !.read_buffer = @ \o Decrypted(e.key, e.decryptor, data),
                         !.encryption_state[1].decryptor =
                             RegisterAfter(e.decryptor, data)]

\* The packet ids of each state's catalog.
Catalog(state) ==
    CASE state = "Login" -> {1, 2}
      [] state = "Configuration" -> {2, 3}
      [] OTHER -> {1, 3}

StateAfter(state) == IF state = "Login" THEN "Configuration" ELSE "Play"

\* Decode for the packets of a state: an id outside its catalog is an error.
DecodeAs(state, buffer, r) ==
    IF r.result = "Some" /\ r.packet[1].id \notin Catalog(state)
    THEN Failure(buffer) ELSE r

\* The frame a vanilla peer writes: with compression set, the data length
\* (0 below the threshold) and the data, compressed from the threshold on.
PeerFrame(packet, threshold) ==
    LET plain == EncodePlain(packet)
        rest == IF Len(plain) >= threshold
                THEN write_var_int(Len(plain)) \o Compress(ZLIB, plain)
                ELSE <<0>> \o plain
    IN IF threshold = 0 THEN write_var_int(Len(plain)) \o plain
       ELSE write_var_int(Len(rest)) \o rest

\* The bytes of a short read of the transport.
ReadSize == 3

EndpointPackets ==
    {[id |-> 1, data |-> <<>>], [id |-> 2, data |-> <<7, 8>>], [id |-> 3, data |-> <<9>>]}

\* The handshake has come to the point where both ends start to encrypt:
\* nothing is in flight, and the remote enables the same key.
EndpointEnableEncryption(key) ==
    /\ endpoint.kind = "Vanilla"
    /\ endpoint.state = "Login" /\ endpoint.remote.state = "Login"
    /\ endpoint.send_codec.encryption_state = <<>>
    /\ endpoint.wire = <<>>
    /\ endpoint' = [endpoint EXCEPT
           !.send_codec = enable_encryption(@, key),
           !.recv_codec = enable_encryption(@, key),
           !.remote.encryption_state =
               <<[key |-> key, encryptor |-> key, decryptor |-> key]>>]
    /\ UNCHANGED <<pvars, svars, rcv, seq, alloc, translator, codec, sendHandle,
                   recvHandle, block, seqHandle>>

\* SetCompression has been handled: nothing sent before it is undecoded.
EndpointEnableCompression(threshold) ==
    /\ endpoint.kind = "Vanilla"
    /\ endpoint.state = "Login" /\ endpoint.remote.state = "Login"
    /\ endpoint.send_codec.compression_state = 0
    /\ endpoint.wire = <<>> /\ endpoint.recv_codec.read_buffer = <<>>
    /\ endpoint' = [endpoint EXCEPT
           !.send_codec = enable_compression(@, threshold),
           !.recv_codec = enable_compression(@, threshold)]
    /\ UNCHANGED <<pvars, svars, rcv, seq, alloc, translator, codec, sendHandle,
                   recvHandle, block, seqHandle>>

\* VanillaPacketIo::switch_state (for the QUIC codec, switch_state of the
\* one codec): both codecs go over to the next state.
EndpointSwitchState ==
    /\ endpoint.state # "Play"
    /\ LET before == [send_codec |-> endpoint.send_codec,
                      recv_codec |-> endpoint.recv_codec]
           after == [send_codec |-> switch_state(endpoint.send_codec),
                     recv_codec |-> switch_state(endpoint.recv_codec)]
       IN endpoint' = [endpoint EXCEPT
              !.state = StateAfter(@),
              !.send_codec = after.send_codec,
              !.recv_codec = after.recv_codec,
              !.switches = Append(@, [before |-> before, after |-> after,
                                      decoded |-> Len(endpoint.calls)])]
    /\ UNCHANGED <<pvars, svars, rcv, seq, alloc, translator, codec, sendHandle,
                   recvHandle, block, seqHandle>>

\* The remote goes over to the next state, before or after the endpoint.
RemoteSwitchState ==
    /\ endpoint.remote.state # "Play"
    /\ endpoint' = [endpoint EXCEPT !.remote.state = StateAfter(@)]
    /\ UNCHANGED <<pvars, svars, rcv, seq, alloc, translator, codec, sendHandle,
                   recvHandle, block, seqHandle>>

\* The remote writes the frame of a packet of its state, encrypted once
\* encryption is on.
RemoteSends(packet) ==
    /\ endpoint.half = "recv"
    /\ Len(endpoint.sent) < MaxRemoteSends
    /\ packet.id \in Catalog(endpoint.remote.state)
    /\ LET frame == IF endpoint.kind = "Vanilla"
                    THEN PeerFrame(packet, endpoint.recv_codec.compression_state)
                    ELSE OptimizedEncodePacket(packet)
           e == endpoint.remote.encryption_state
           bytes == IF e = <<>> THEN frame
                    ELSE Encrypted(e[1].key, e[1].encryptor, frame)
       IN endpoint' = [endpoint EXCEPT
              !.sent = Append(@, [state |-> endpoint.remote.state,
                                  packet |-> packet,
                                  size |-> Len(frame)]),
              !.wire = @ \o bytes,
              !.remote.encryption_state =
                  IF e = <<>> THEN e
                  ELSE <<[e[1] EXCEPT !.encryptor = RegisterAfter(@, bytes)]>>]
    /\ UNCHANGED <<pvars, svars, rcv, seq, alloc, translator, codec, sendHandle,
                   recvHandle, block, seqHandle>>

\* give_data with the next bytes read from the transport: a read of
\* ReadSize bytes, or all that were written.
EndpointGiveData(n) ==
    /\ n \in {Min(ReadSize, Len(endpoint.wire)), Len(endpoint.wire)}
    /\ endpoint' = [endpoint EXCEPT
           !.recv_codec = give_data(@, Take(endpoint.wire, n)),
           !.wire = Drop(@, n),
           !.arrived = @ + n]
    /\ UNCHANGED <<pvars, svars, rcv, seq, alloc, translator, codec, sendHandle,
                   recvHandle, block, seqHandle>>

\* decode_packet of the receiving codec in the endpoint's state, on a read
\* buffer that holds something; after None the reader gives more data
\* before it decodes again, and an error ends the decoding.
EndpointDecodePacket ==
    /\ Len(endpoint.calls) < MaxEndpointDecodes
    /\ endpoint.recv_codec.read_buffer # <<>>
    /\ endpoint.calls # <<>> /\ endpoint.calls[Len(endpoint.calls)].result = "None"
           => endpoint.calls[Len(endpoint.calls)].held
                  # Len(endpoint.recv_codec.read_buffer)
    /\ \A i \in 1..Len(endpoint.calls) : endpoint.calls[i].result # "Err"
    /\ LET buffer == endpoint.recv_codec.read_buffer
           r == DecodeAs(endpoint.state, buffer,
                         IF endpoint.kind = "Vanilla"
                         THEN VanillaDecodePacket(buffer,
                                  endpoint.recv_codec.compression_state)
                         ELSE OptimizedDecodePacket(buffer))
       IN endpoint' = [endpoint EXCEPT
              !.recv_codec.read_buffer = r.read_buffer,
              !.calls = Append(@, [state |-> endpoint.state,
                                   held |-> Len(buffer),
                                   result |-> r.result,
                                   packet |-> r.packet])]
    /\ UNCHANGED <<pvars, svars, rcv, seq, alloc, translator, codec, sendHandle,
                   recvHandle, block, seqHandle>>

\* encode_packet of the sending codec; the remote puts the bytes through
\* its decryptor.
EndpointEncodePacket(packet) ==
    /\ endpoint.half = "send"
    /\ Len(endpoint.written) < MaxEndpointSends
    /\ packet.id \in Catalog(endpoint.state)
    /\ LET frame == IF endpoint.kind = "Vanilla"
                    THEN VanillaEncodePacket(packet,
                             endpoint.send_codec.compression_state)
                    ELSE OptimizedEncodePacket(packet)
           out == EncryptFrame(endpoint.send_codec, frame)
           e == endpoint.remote.encryption_state
       IN endpoint' = [endpoint EXCEPT
              !.send_codec = out.codec,
              !.written = Append(@, [state |-> endpoint.state, frame |-> frame]),
              !.remote.plain =
                  @ \o (IF e = <<>> THEN out.bytes
                        ELSE Decrypted(e[1].key, e[1].decryptor, out.bytes)),
              !.remote.encryption_state =
                  IF e = <<>> THEN e
                  ELSE <<[e[1] EXCEPT !.decryptor = RegisterAfter(@, out.bytes)]>>]
    /\ UNCHANGED <<pvars, svars, rcv, seq, alloc, translator, codec, sendHandle,
                   recvHandle, block, seqHandle>>

EndpointInit ==
    /\ ProxyStart("Single")
    /\ SessionStart("good")
    /\ RecvStart("Tcp")
    /\ SequencesStart
    /\ AllocatorStart("PlayServer")
    /\ TranslatorStart
    /\ CodecStart("Optimized", 0)
    /\ SendHandleStart
    /\ RecvHandleStart
    /\ \E kind \in {"Vanilla", "Optimized"}, half \in {"send", "recv"} :
          EndpointStart(kind, half)
    /\ BlockStart(0, 0, 0)
    /\ SeqHandleStart

EndpointNext ==
    \/ \E key \in EncryptionKeys : EndpointEnableEncryption(key)
    \/ \E threshold \in {2} : EndpointEnableCompression(threshold)
    \/ EndpointSwitchState
    \/ RemoteSwitchState
    \/ \E packet \in EndpointPackets : RemoteSends(packet)
    \/ \E n \in 1..Len(endpoint.wire) : EndpointGiveData(n)
    \/ EndpointDecodePacket
    \/ \E packet \in EndpointPackets : EndpointEncodePacket(packet)

SpecEndpoint == EndpointInit /\ [][EndpointNext]_vars

(* ========================================================= BlockPosition *)
\* An i64 is kept as its 64 bits, the most significant first.
RECURSIVE Pow2(_)
Pow2(n) == IF n = 0 THEN 1 ELSE 2 * Pow2(n - 1)

\* The w bits of v in two's complement, for v in [-2^(w-1), 2^(w-1)).
Bits(v, w) ==
    LET u == IF v < 0 THEN v + Pow2(w) ELSE v
    IN [i \in 1..w |-> (u \div Pow2(w - i)) % 2]

RECURSIVE Unsigned(_)
Unsigned(bits) ==
    IF bits = <<>> THEN 0
    ELSE 2 * Unsigned(SubSeq(bits, 1, Len(bits) - 1)) + bits[Len(bits)]

\* The wire format of a position: x in 26 bits, z in 26 bits, y in 12 bits,
\* as eight bytes in network order.
PackedPosition(p) ==
    LET bits == Bits(p.x, 26) \o Bits(p.z, 26) \o Bits(p.y, 12)
    IN [b \in 1..8 |-> Unsigned(SubSeq(bits, 8 * b - 7, 8 * b))]

\* Decoder::read_i64: i64::from_be_bytes of the next eight bytes.
read_i64(buffer) ==
    [i \in 1..64 |-> Bits(buffer[((i - 1) \div 8) + 1], 8)[((i - 1) % 8) + 1]]

\* value >> n on an i64: the sign bit fills the top.
Sar64(value, n) == [i \in 1..64 |-> IF i <= n THEN value[1] ELSE value[i - n]]

\* value << n on an i64.
Shl64(value, n) == [i \in 1..64 |-> IF i + n <= 64 THEN value[i + n] ELSE 0]

\* value & 0xFFF
And0xFFF(value) == [i \in 1..64 |-> IF i > 52 THEN value[i] ELSE 0]

\* `as i32` of an i64: its low 32 bits in two's complement.
AsI32(value) ==
    IF value[33] = 1
    THEN (Unsigned(SubSeq(value, 34, 64)) - 1073741824) - 1073741824
    ELSE Unsigned(SubSeq(value, 34, 64))

\* Decoder::read_block_position
read_block_position(buffer) ==
    LET value == read_i64(buffer)
    IN [x |-> AsI32(Sar64(value, 38)),
        y |-> AsI32(And0xFFF(value)),
        z |-> AsI32(Sar64(Shl64(value, 26), 38))]

\* x and z of the positions read, and their y: the ends of the ranges, the
\* values around zero and two in between.
Horizontals == {-33554432, -4097, -1, 0, 1, 4096, 33554431}
Heights == {-2048, -65, -1, 0, 1, 64, 2047}

\* A packet's position field is decoded.
ReadBlockPosition ==
    /\ block.decoded = <<>>
    /\ block' = [block EXCEPT
           !.decoded = <<read_block_position(PackedPosition(block.position))>>]
    /\ UNCHANGED <<pvars, svars, rcv, seq, alloc, translator, codec, sendHandle,
                   recvHandle, endpoint, seqHandle>>

BlockInit ==
    /\ ProxyStart("Single")
    /\ SessionStart("good")
    /\ RecvStart("Tcp")
    /\ SequencesStart
    /\ AllocatorStart("PlayServer")
    /\ TranslatorStart
    /\ CodecStart("Optimized", 0)
    /\ SendHandleStart
    /\ RecvHandleStart
    /\ EndpointStart("Vanilla", "recv")
    /\ \E x \in Horizontals, y \in Heights, z \in Horizontals : BlockStart(x, y, z)
    /\ SeqHandleStart

BlockNext == ReadBlockPosition

SpecBlock == BlockInit /\ [][BlockNext]_vars

(* ============================================================== claims *)
\* Position of forwarder t in a log of forwarders, 0 when absent.
Pos(log, t) ==
    IF \E i \in 1..Len(log) : log[i] = t
    THEN CHOOSE i \in 1..Len(log) : log[i] = t
    ELSE 0

\* Forwarders of packets taken from the TCP endpoint, sent on QUIC.
Forwarded == {t \in TaskIds : tasks[t].dir = "toQuic" /\ Pos(sendLog, t) # 0}

SameTarget(a, b) ==
    /\ AllocateStreamFor(io, tasks[a].packet) = AllocateStreamFor(io, tasks[b].packet)
    /\ AllocateStreamFor(io, tasks[a].packet).type # "New"

Transitions ==
    {<<"Handshake", "Status">>, <<"Handshake", "Login">>,
     <<"Login", "Configuration">>, <<"Configuration", "Play">>,
     <<"Play", "Configuration">>}

\* The client packet that ends a state.
EndedBy(from) ==
    CASE from = "Handshake" -> "Handshake"
      [] from = "Login" -> "LoginAcknowledged"
      [] from = "Configuration" -> "FinishConfiguration"
      [] OTHER -> "AcknowledgeConfiguration"

\* The client translator has taken transition t of the gateway, or has
\* stopped its loop on the packet and will take it when its forwarders are done.
ClientFollows(t) ==
    \/ <<"client", t[2], t[3], t[4]>> \in hist.trans
    \/ /\ cl.st = t[2]
       /\ \/ cl.pc = "hack" /\ cl.reason = t[3]
          \/ cl.pc = "drain" /\ cl.reason = "Finish" /\ t[3] = "Configuration"
          \/ cl.pc = "drain" /\ cl.reason = "FinishConfiguration" /\ t[3] = "Play"

\* C3: a session changes state only along Handshake->Status, Handshake->Login,
\* Login->Configuration, Configuration->Play and Play->Configuration, each on
\* the client packet that ends the state, never out of Status, and the client
\* translator takes every transition the gateway takes on a client packet.
C3_SameTransitions ==
    \A t \in hist.trans :
        /\ <<t[2], t[3]>> \in Transitions
        /\ t[4] = EndedBy(t[2])
        /\ t[1] = "gateway" => ClientFollows(t)

C5_BothLeavePlay ==
    <<"gateway", "Play", "Configuration", "AcknowledgeConfiguration">> \in hist.trans =>
        /\ "AckTransitionPlayToConfig" \in ctl.sent
        /\ gw.st = "Configuration" => gw.bi
        /\ \/ \E t \in hist.trans : t[1] = "client" /\ t[2] = "Play"
           \/ cl.pc = "drain" /\ cl.st = "Play"

\* The client translator has seen EncryptionResponse and has not yet
\* received the acknowledgement of the key.
AwaitingEncryption(c) ==
    \/ c.pc = "drain" /\ c.reason = "EnableEncryption"
    \/ c.pc \in {"waitKey", "waitAckEncryption"}

\* C6: the gateway enables encryption of the server-side codec only after
\* the EncryptionResponse was written unencrypted to the destination and the
\* key arrived; it acknowledges only after enabling; the client translator
\* takes no further packet between EncryptionResponse and the
\* acknowledgement; and what is written to the destination once an
\* EncryptionResponse was seen is encrypted, nothing the destination
\* encrypted is read without the cipher, and nothing is deciphered before.
C6_EncryptionOrder ==
    /\ [](/\ gw.encryption =>
                /\ gw.key
                /\ \E w \in hist.written :
                      w.frame.kind = "EncryptionResponse" /\ ~w.enc
          /\ "AcknowledgeEnableTerminalEncryption" \in ctl.sent => gw.encryption
          /\ cl.pc \in {"waitKey", "waitAckEncryption"} => cl.pending = <<>>
          /\ \A w \in hist.written :
                w.enc <=> <<"EncryptionResponse", 0>> \in w.seen
          /\ \A d \in hist.decoded :
                /\ d.enc => d.dec
                /\ d.dec => <<"EncryptionResponse", 0>> \in d.seen)
    /\ [][AwaitingEncryption(cl) => Len(cl'.pending) <= Len(cl.pending)]_vars

C6_Witness ==
    /\ gw.encryption
    /\ cl.pc = "run"
    /\ "AcknowledgeEnableTerminalEncryption" \in cl.got
    /\ \E w \in hist.written : w.enc
    /\ \E d \in hist.decoded : d.enc /\ d.dec

C8_OnlyWhenObserved ==
    /\ gw.encryption => gw.key /\ <<"EncryptionResponse", 0>> \in gw.seen
    /\ gw.compression # {} => \E o \in gw.seen : o[1] = "SetCompression"
    /\ (gw.st = "Configuration" /\ cl.st = "Configuration" /\ gw.seen = {}) =>
          ~gw.encryption /\ gw.compression = {}
    /\ ~cl.encryption /\ cl.compression = {}
    /\ \A t \in net.t2gc : ~t.enc /\ t.comp = {}
    /\ gw.seen = {} => \A w \in hist.written : ~w.enc /\ w.comp = {}

C8_Witness ==
    /\ gw.st = "Configuration" /\ cl.st = "Configuration"
    /\ gw.seen = {}
    /\ net.t2gc # {}
    /\ \E w \in hist.written : w.frame.kind = "LoginAcknowledged"

\* C9: with a wrong authentication key the gateway's session ends with no
\* TCP connection to the destination, no AcknowledgeConnectTo, and no packet
\* stream opened or accepted.
C9_WrongKey ==
    auth = "bad" =>
        /\ ~env.dest
        /\ ctl.sent = {}
        /\ gStreams = <<>> /\ gw.acc = 0 /\ gw.recv = {}
        /\ gw.pc \in {"waitConnectTo", "error"}
        /\ (cl.pc # "start" /\ ctl.c2g = <<>>) => gw.pc = "error"

C9_Witness == auth = "bad" /\ gw.pc = "error" /\ cl.pc = "waitAck"

\* C10: the client accepts the local TCP connection and opens packet streams
\* only after it received AcknowledgeConnectTo, any other acknowledgement
\* ends it, and the gateway sends AcknowledgeConnectTo only with the TCP
\* connection to the destination established.
C10_ConnectOrder ==
    /\ (env.local \/ cStreams # <<>>) => "AcknowledgeConnectTo" \in cl.got
    /\ cl.pc \in {"start", "waitAck"} => ~env.local /\ cStreams = <<>>
    /\ (cl.got # {} /\ "AcknowledgeConnectTo" \notin cl.got) => cl.pc = "error"
    /\ \A m \in GatewayMessage :
          WaitForAck("AcknowledgeConnectTo", m, "listening") = "listening"
              <=> m = "AcknowledgeConnectTo"
    /\ "AcknowledgeConnectTo" \in ctl.sent => env.dest

C10_Witness == env.local /\ cStreams # <<>> /\ env.dest

\* Number of entries of log that equal x.
Count(log, x) == Cardinality({i \in 1..Len(log) : log[i] = x})

\* C11: the client translator sends one Handshake packet to the gateway and
\* no second one, and the gateway writes it to the destination once, as the
\* first thing it writes there: before every Status and Login packet.
C11_OneHandshake ==
    /\ Count(hist.sent, "Handshake") <= 1
    /\ cl.pc \in {"hack", "run", "drain"} => Count(hist.sent, "Handshake") = 1
    /\ hist.sent # <<>> => hist.sent[1] = "Handshake"
    /\ Count(hist.dest, "Handshake") <= 1
    /\ hist.dest # <<>> => hist.dest[1] = "Handshake"
    /\ (gw.st # "Handshake" \/ env.srvSt # "Handshake") =>
          Count(hist.dest, "Handshake") = 1

C11_Witness ==
    /\ Len(hist.sent) >= 3
    /\ Len(hist.dest) >= 3
    /\ \E i \in 2..Len(hist.dest) : hist.dest[i] = "Login"
    /\ \E w \in hist.written : w.frame.state = "Handshake"

\* C12: a packet whose interception breaks the loop still gets its forwarder;
\* once the loop has broken no further packet is taken from either endpoint;
\* and run returns the break reason only when every forwarder spawned so far
\* has been joined with its send complete.
C12_BreakForwardsAndDrains ==
    /\ [](loopPc \in {"draining", "returned"} =>
            /\ tasks # <<>>
            /\ breakReason # Continue
            /\ Intercept(io, tasks[Len(tasks)].dir, tasks[Len(tasks)].packet) = breakReason)
    /\ [][Len(tasks') > Len(tasks) => loopPc = "running"]_vars
    /\ [](loopPc = "returned" =>
            \A t \in TaskIds :
                /\ tasks[t].pc = "done"
                /\ t \in joined
                /\ t \in Range(sendLog) \cup Range(tcpOut))

\* The run returned a break reason after a drain that had work to do: a
\* packet taken before the breaking one was written after it.
C12_Witness ==
    /\ loopPc = "returned"
    /\ \E t \in 1..(Len(tasks) - 1) :
          \/ \E i, j \in 1..Len(sendLog) :
                i < j /\ sendLog[i] = Len(tasks) /\ sendLog[j] = t
          \/ \E i, j \in 1..Len(tcpOut) :
                i < j /\ tcpOut[i] = Len(tasks) /\ tcpOut[j] = t

\* C13: a failed receive, and a failed send of a forwarder whether it is
\* joined in the loop or in the drain, make run return the error: run never
\* returns a break reason with a failed send among its forwarders, and an
\* error once returned stays the result.
C13_ErrorNotBreak ==
    /\ [](loopPc = "returned" => Failed = {})
    /\ [][(\E t \in joined' \ joined : tasks[t].pc = "failed") => loopPc' = "failed"]_vars
    /\ [][loopPc = "failed" => loopPc' = "failed"]_vars

\* A send failed after the loop had broken, and the drain returned the error.
C13_Witness ==
    /\ loopPc = "failed"
    /\ breakReason # Continue
    /\ Failed \cap joined # {}

(* -------------------------------------------------- recv_packet claims *)
\* The packets among results q that the remote sent as ids, as their ids.
IdsOf(q, ids) ==
    LET kept == SelectSeq(q, LAMBDA r : r.ok /\ r.packet[1] \in ids)
    IN [i \in 1..Len(kept) |-> kept[i].packet[1]]

\* Every byte the remote wrote on stream s is where the receive path keeps
\* it: in a packet returned, in a channel, in the codec's buffer or not yet
\* read, in the order written; and so is every datagram's packet.
Conserved ==
    /\ \A s \in 1..Len(rcv.wire) :
          LET ids == Range(rcv.sentOn[s])
              queued == IF s <= Len(rcv.recv_data)
                        THEN IdsOf(rcv.recv_data[s], ids) ELSE <<>>
              buffered == IF s <= Len(rcv.read_buffer)
                          THEN rcv.read_buffer[s] ELSE <<>>
          IN EncodeAll(IdsOf(rcv.returned, ids) \o IdsOf(rcv.stream_receives, ids)
                       \o queued) \o buffered \o rcv.wire[s]
                = EncodeAll(rcv.sentOn[s])
    /\ LET ids == {10 + i : i \in 1..MaxDatagrams}
       IN IdsOf(rcv.returned, ids) \o IdsOf(rcv.inbound, ids)
             = [i \in 1..rcv.dgrams |-> 10 + i]

\* C14: with recv_packet futures cancelled at their awaits, nothing taken
\* from a stream or channel is lost or duplicated, and the successive calls
\* return the packets the remote sent: none of them returns an error while
\* the connection stands.
C14_ExactlyThePacketsSent == rcv.cancelled => Conserved /\ ~Errored

(* ---------------------------------------------------- Sequences claims *)
\* The high-water mark receive_packet compares with: of the key's cached
\* sequence, and 0 of a sequence made on the spot.
Mark(key) == GetSequence(key).newest_received

\* The ordinals delivered on key, in the order delivered.
DeliveredOn(key) == SelectSeq(seq.delivered, LAMBDA e : e.key = key)

\* The step sends or receives on key.
Touches(key) ==
    \/ \E d \in seq.flight \ seq'.flight : d.key = key
    \/ Len(seq'.out) > Len(seq.out) /\ seq'.out[Len(seq'.out)].key = key

\* C15: a received datagram is delivered exactly when its ordinal is at or
\* above its key's high-water mark, which then becomes that ordinal; below
\* the mark it is discarded and the mark stays.
C15_DeliveredIffNotStale ==
    [][\A d \in seq.flight \ seq'.flight :
          IF d.ordinal >= Mark(d.key)
          THEN /\ Len(seq'.delivered) = Len(seq.delivered) + 1
               /\ seq'.delivered[Len(seq'.delivered)].key = d.key
               /\ seq'.delivered[Len(seq'.delivered)].ordinal = d.ordinal
               /\ seq'.dropped = seq.dropped
               /\ seq'.sequences[d.key].newest_received = d.ordinal
          ELSE /\ seq'.delivered = seq.delivered
               /\ seq'.dropped = seq.dropped \cup {d}
               /\ seq'.sequences[d.key].newest_received = Mark(d.key)]_vars

\* A datagram was delivered at the initial mark, one above it, and one was
\* discarded as stale.
C15_Witness ==
    /\ seq.dropped # {}
    /\ \E i, j \in 1..Len(seq.delivered) :
          /\ i < j
          /\ seq.delivered[i].key = seq.delivered[j].key
          /\ seq.delivered[i].ordinal = 0
          /\ seq.delivered[j].ordinal > 0

C17_Independent ==
    [][\A key \in SequenceKeys :
          ~Touches(key) =>
             IF key \in DOMAIN seq.sequences
             THEN /\ key \in DOMAIN seq'.sequences
                  /\ seq'.sequences[key].send_counter = seq.sequences[key].send_counter
                  /\ seq'.sequences[key].newest_received = seq.sequences[key].newest_received
                  /\ seq'.sequences[key].idle >= seq.sequences[key].idle
             ELSE key \notin DOMAIN seq'.sequences]_vars

\* A stale datagram was discarded on one key, and the other key has since
\* delivered a datagram at a lower ordinal than the first key's mark.
C17_Witness ==
    \E a, b \in SequenceKeys :
        /\ a # b
        /\ \E d \in seq.dropped : d.key = a
        /\ Live(a) /\ Live(b)
        /\ seq.sequences[a].newest_received > seq.sequences[b].newest_received
        /\ seq.delivered # <<>>
        /\ seq.delivered[Len(seq.delivered)].key = b
        /\ seq.out # <<>>

(* ---------------------------------------------- StreamAllocator claims *)
\* The lookup of the same cache key that came last before lookup i, 0 when
\* lookup i is the key's first.
Previous(i) ==
    LET before == {j \in 1..(i - 1) :
                      /\ alloc.log[j].type = alloc.log[i].type
                      /\ alloc.log[j].key = alloc.log[i].key}
    IN IF before = {} THEN 0 ELSE CHOOSE j \in before : \A k \in before : k <= j

\* Streams open when lookup i began.
OpenedBefore(i) == IF i = 1 THEN 3 ELSE alloc.log[i - 1].opened

\* C18: a lookup of an entity id or chunk position that follows a lookup of
\* the same key by less than the idle duration returns the same stream and
\* opens none; a lookup returns a new stream only for a key never looked up
\* or not looked up for the idle duration, and then opens exactly one.
C18_SameStreamUntilIdle ==
    \A i \in 1..Len(alloc.log) :
        alloc.log[i].type \in {"Entity", "Block"} =>
            LET j == Previous(i)
                e == alloc.log[i]
            IN /\ (j # 0 /\ e.at - alloc.log[j].at < STREAM_IDLE_DURATION) =>
                     /\ e.hit
                     /\ e.stream = alloc.log[j].stream
                     /\ e.opened = OpenedBefore(i)
               /\ ~e.hit =>
                     /\ j = 0 \/ e.at - alloc.log[j].at >= STREAM_IDLE_DURATION
                     /\ e.opened = OpenedBefore(i) + 1
                     /\ e.stream = e.opened
                     /\ \A k \in 1..(i - 1) : alloc.log[k].stream # e.stream

\* Three lookups of one key, each within the idle duration of the one before
\* and the last one later than that after the first: all the same stream.
C18_Witness ==
    /\ Len(alloc.log) = 3
    /\ \A i \in 1..3 : alloc.log[i].type = "Entity" /\ alloc.log[i].key = 1
    /\ alloc.log[3].at - alloc.log[1].at >= STREAM_IDLE_DURATION
    /\ alloc.log[3].stream = alloc.log[1].stream

\* The chunk that holds the blocks a block-update packet changes.
ContainingChunk(p) == IF p.kind = "BlockUpdate" THEN p.id \div 16 ELSE p.id

\* C19: two block-update packets for blocks of the same chunk, allocated
\* with no time between them for an entry to idle out, get the same stream,
\* and the key of each is the chunk that holds its blocks.
C19_SameChunkSameStream ==
    \A i, j \in 1..Len(alloc.log) :
        /\ alloc.log[i].type = "Block"
        /\ alloc.log[j].type = "Block"
        /\ ContainingChunk(alloc.log[i].packet) = ContainingChunk(alloc.log[j].packet)
        /\ alloc.log[i].at = alloc.log[j].at
        => /\ alloc.log[i].stream = alloc.log[j].stream
           /\ alloc.log[i].key = ContainingChunk(alloc.log[i].packet)

\* C20: every entity motion packet is allocated the unreliable sequence
\* EntityPosition of its entity and every SetEntityVelocity the sequence
\* EntityVelocity of its entity, whatever the caches hold, and no stream is
\* returned or opened for it.
C20_MotionOnSequences ==
    \A i \in 1..Len(alloc.log) :
        LET e == alloc.log[i]
        IN /\ e.packet.kind \in ServerPositionFamily =>
                 /\ e.type = "Sequence"
                 /\ e.key = <<"EntityPosition", e.packet.id>>
                 /\ e.stream = 0
                 /\ e.opened = OpenedBefore(i)
           /\ e.packet.kind = "SetEntityVelocity" =>
                 /\ e.type = "Sequence"
                 /\ e.key = <<"EntityVelocity", e.packet.id>>
                 /\ e.stream = 0
                 /\ e.opened = OpenedBefore(i)

\* An entity has its stream in the cache, and a motion packet and a velocity
\* packet of the same entity were allocated after it.
C20_Witness ==
    /\ Len(alloc.log) = 3
    /\ alloc.log[1].type = "Entity"
    /\ alloc.log[2].packet.kind \in ServerPositionFamily
    /\ alloc.log[3].packet.kind = "SetEntityVelocity"
    /\ alloc.log[2].packet.id = alloc.log[1].packet.id
    /\ alloc.log[3].packet.id = alloc.log[1].packet.id
\* The packets that go on the chat stream, and the packets that get a stream
\* of their own, of the side the allocator sends for.
ChatFamily == IF alloc.side = "PlayServer" THEN ServerChatFamily ELSE ClientChatFamily
OneShot == IF alloc.side = "PlayServer" THEN ServerNewStream ELSE ClientNewStream

\* C21: on either side, a stream that carries a chat-family packet carries
\* no packet of another category, and every keepalive-class packet (KeepAlive,
\* Ping, Pong, the server's ephemeral kinds) goes on a stream opened for it
\* that carries no other packet.
C21_ChatAndKeepaliveApart ==
    \A i \in 1..Len(alloc.log) :
        LET e == alloc.log[i]
        IN /\ e.packet.kind \in ChatFamily =>
                 /\ e.type # "Sequence"
                 /\ \A j \in 1..Len(alloc.log) :
                       alloc.log[j].stream = e.stream =>
                           alloc.log[j].packet.kind \in ChatFamily
           /\ e.packet.kind \in OneShot =>
                 /\ e.type # "Sequence"
                 /\ e.opened = OpenedBefore(i) + 1
                 /\ e.stream = e.opened
                 /\ \A j \in 1..Len(alloc.log) :
                       alloc.log[j].stream = e.stream => j = i

\* The client translator allocated a chat packet and two keepalive-class
\* packets, each of the two on its own stream; the gateway a chat packet, an
\* ephemeral packet and a packet of an entity.
C21_Witness ==
    /\ Len(alloc.log) = 3
    /\ alloc.log[1].packet.kind \in ChatFamily
    /\ \/ /\ alloc.side = "PlayClient"
          /\ alloc.log[2].packet.kind = "KeepAlive"
          /\ alloc.log[3].packet.kind = "Pong"
          /\ alloc.log[2].stream # alloc.log[3].stream
       \/ /\ alloc.side = "PlayServer"
          /\ alloc.log[2].packet.kind = "Particle"
          /\ alloc.log[3].packet.kind = "EntityAnimation"
          /\ alloc.log[2].stream # alloc.log[3].stream
(* --------------------------------------------- PacketTranslator claims *)
Recording == {"SpawnEntity", "SpawnExperienceOrb", "TeleportEntity"}
Relative == {"UpdateEntityPosition", "UpdateEntityPositionAndRotation"}
Rotating == Recording \cup {"UpdateEntityRotation", "UpdateEntityPositionAndRotation"}

\* Packet j of the log records a position of entity id; it makes the
\* translator forget the entity.
Records(j, id) ==
    /\ translator.log[j].packet.kind \in Recording
    /\ translator.log[j].packet.id = id
Forgets(j, id) ==
    \/ translator.log[j].packet.kind = "Respawn"
    \/ /\ translator.log[j].packet.kind = "RemoveEntities"
       /\ id \in Range(translator.log[j].packet.entities)

\* The last of a set of indices, 0 for none.
Last(S) == IF S = {} THEN 0 ELSE CHOOSE j \in S : \A k \in S : k <= j

\* The packet before packet i that last recorded entity id's position, if
\* nothing has made the translator forget the entity since; 0 otherwise.
Origin(i, id) ==
    LET j == Last({k \in 1..(i - 1) : Records(k, id)})
    IN IF j # 0 /\ \A k \in (j + 1)..(i - 1) : ~Forgets(k, id) THEN j ELSE 0

\* The sum of one delta of the relative updates of entity id among packets
\* j+1..i.
RECURSIVE Moved(_, _, _, _)
Moved(j, i, id, delta) ==
    IF i <= j THEN 0
    ELSE Moved(j, i - 1, id, delta)
         + (IF /\ translator.log[i].packet.kind \in Relative
               /\ translator.log[i].packet.id = id
            THEN translator.log[i].packet[delta] ELSE 0)

\* The angle of the last packet up to i that carries angles for entity id;
\* an experience orb is recorded with angles 0.
Angle(i, id, angle) ==
    LET k == Last({j \in 1..i : /\ translator.log[j].packet.kind \in Rotating
                                /\ translator.log[j].packet.id = id})
    IN IF translator.log[k].packet.kind = "SpawnExperienceOrb" THEN 0
       ELSE translator.log[k].packet[angle]

\* C22: a relative update of an entity whose position was recorded as P0 and
\* not forgotten since goes out as a TeleportEntity of the same entity at P0
\* plus the deltas of the relative updates since, this one included (in
\* 1/4096ths), with the yaw and pitch of the last packet that carried angles
\* for the entity and the update's own on_ground.
C22_RelativeBecomesTeleport ==
    \A i \in 1..Len(translator.log) :
        LET p == translator.log[i].packet
            j == Origin(i, p.id)
            P0 == translator.log[j].packet
        IN (p.kind \in Relative /\ j # 0) =>
              translator.log[i].sent =
                  <<TeleportEntity(p.id,
                                   P0.x + Moved(j, i, p.id, "delta_x"),
                                   P0.y + Moved(j, i, p.id, "delta_y"),
                                   P0.z + Moved(j, i, p.id, "delta_z"),
                                   Angle(i, p.id, "yaw"),
                                   Angle(i, p.id, "pitch"),
                                   p.on_ground)>>

\* Entity 1 spawns at x = 0, turns, and moves twice: the second teleport is
\* to x = 1 block - 8 blocks with the angles of the turn.
C22_Witness ==
    /\ Len(translator.log) = 4
    /\ translator.log[1].packet.kind = "SpawnEntity"
    /\ translator.log[2].packet.kind = "UpdateEntityRotation"
    /\ translator.log[3].packet = UpdateEntityPosition(1, 4096, 0, -1, TRUE)
    /\ translator.log[4].packet = UpdateEntityPosition(1, -32768, 32767, 2, FALSE)
    /\ translator.log[4].sent =
           <<TeleportEntity(1, Blocks(1) - Blocks(8), Blocks(64) + 32767,
                            Blocks(-3) + 1, 70, 80, FALSE)>>

\* Packet i is a relative update of an entity that a RemoveEntities listed
\* and that has not been recorded since.
AfterRemove(i) ==
    LET id == translator.log[i].packet.id
    IN /\ translator.log[i].packet.kind \in Relative
       /\ \E j \in 1..(i - 1) :
             /\ translator.log[j].packet.kind = "RemoveEntities"
             /\ id \in Range(translator.log[j].packet.entities)
             /\ \A k \in (j + 1)..(i - 1) : ~Records(k, id)

\* C23: for a relative update of an entity that a RemoveEntities listed, and
\* that was not recorded again, nothing is sent to the client.
C23_DroppedAfterRemove ==
    \A i \in 1..Len(translator.log) :
        AfterRemove(i) => translator.log[i].sent = <<>>

\* C24: after a Respawn the table is empty, and a relative update of an
\* entity not recorded since the Respawn gets no translation and no
\* TeleportEntity goes out for it.
C24_RespawnClears ==
    \A i \in 1..Len(translator.log) :
        translator.log[i].packet.kind = "Respawn" =>
            /\ translator.log[i].after = <<>>
            /\ \A k \in (i + 1)..Len(translator.log) :
                  LET p == translator.log[k].packet
                  IN /\ p.kind \in Relative
                     /\ \A j \in (i + 1)..(k - 1) : ~Records(j, p.id)
                     => /\ translator.log[k].result = None
                        /\ \A n \in 1..Len(translator.log[k].sent) :
                              translator.log[k].sent[n].kind # "TeleportEntity"

\* Two entities are known, a Respawn comes, and each is sent a relative update.
C24_Witness ==
    /\ Len(translator.log) = 4
    /\ translator.log[1].packet.kind = "SpawnEntity"
    /\ translator.log[2].packet.kind = "Respawn"
    /\ translator.log[2].before # <<>>
    /\ translator.log[3].packet.kind \in Relative
    /\ translator.log[4].packet.kind \in Relative
    /\ translator.log[3].packet.id = translator.log[1].packet.id
    /\ translator.log[4].packet.id # translator.log[3].packet.id

\* C27: a relative update of an entity whose position the translator does
\* not know goes on as it is, to the EntityPosition sequence of its entity,
\* and leaves the table as it was.
C27_UnknownPassesThrough ==
    \A i \in 1..Len(translator.log) :
        LET e == translator.log[i]
        IN (e.packet.kind \in Relative /\ Origin(i, e.packet.id) = 0) =>
              /\ e.sent = <<e.packet>>
              /\ e.allocation = [type |-> "Sequence",
                                 key |-> <<"EntityPosition", e.packet.id>>]
              /\ e.after = e.before

\* Entity 2 is known and entity 1 is not, once never seen and once removed,
\* when an update with a rotation and a plain update for entity 1 come.
C27_Witness ==
    /\ Len(translator.log) = 4
    /\ translator.log[1].packet.kind = "SpawnEntity"
    /\ translator.log[1].packet.id = 2
    /\ translator.log[2].packet.kind = "UpdateEntityPositionAndRotation"
    /\ translator.log[2].sent = <<translator.log[2].packet>>
    /\ translator.log[3].packet = RemoveEntities(<<2, 1>>)
    /\ translator.log[4].packet.kind = "UpdateEntityPosition"
    /\ translator.log[4].packet.id = 1
    /\ translator.log[4].before = <<>>

(* ---------------------------------------------------------- codec claims *)
\* decode_packet calls before call c that returned a packet.
Somes(c) == Cardinality({i \in 1..(c - 1) : codec.calls[i].result = "Some"})

\* The number of bytes the first k frames take on the wire.
RECURSIVE FrameEnd(_)
FrameEnd(k) == IF k = 0 THEN 0 ELSE FrameEnd(k - 1) + Len(codec.frames[k])

\* At call c the read buffer holds the whole of the next frame.
Complete(c) ==
    /\ Somes(c) < Len(codec.sent)
    /\ codec.calls[c].given >= FrameEnd(Somes(c) + 1)

\* The frame the native protocol lays down for a packet under compression
\* threshold T: VarInt(length of the rest), then VarInt(0) and the plain
\* bytes, or VarInt(plain length) and the compressed bytes.
CompressedFrame(packet, T) ==
    LET plain == EncodePlain(packet)
        rest == IF Len(plain) < T THEN write_var_int(0) \o plain
                ELSE write_var_int(Len(plain)) \o Compress(ZLIB, plain)
    IN write_var_int(Len(rest)) \o rest

\* C25: with compression enabled at threshold T on the encoder and the
\* decoder of the native codec, every frame is VarInt(length of the rest),
\* then VarInt(0) and the plain bytes when the plain length is below T, or
\* VarInt(plain length) and the zlib-compressed bytes otherwise, and decoding
\* the frames gives back the packets that were encoded.
C25_CompressedRoundTrip ==
    (codec.kind = "Vanilla" /\ codec.threshold # 0) =>
        /\ \A i \in 1..Len(codec.frames) :
              codec.frames[i] = CompressedFrame(codec.sent[i], codec.threshold)
        /\ \A c \in 1..Len(codec.calls) :
              Complete(c) =>
                  /\ codec.calls[c].result = "Some"
                  /\ codec.calls[c].packet = <<codec.sent[Somes(c) + 1]>>

\* C26: in both codecs a decode_packet that finds a declared frame length
\* above 1 MiB returns an error though no byte of the body has come, and
\* leaves the buffer as it is; for a declared length up to 1 MiB with no
\* body it reports that it needs more data.
C26_LengthLimit ==
    \A c \in 1..Len(codec.calls) :
        (codec.declared >= 0 /\ codec.calls[c].given = var_int_size(codec.declared)) =>
            /\ codec.declared > 1048576 =>
                  codec.calls[c].result = "Err" /\ codec.calls[c].drained = 0
            /\ codec.declared <= 1048576 => codec.calls[c].result = "None"

\* A peer of the QUIC codec declared a frame of 1 MiB and one byte, the
\* three bytes of the prefix were handed over one by one and decode_packet
\* was called on them.
C26_Witness ==
    /\ codec.kind = "Optimized"
    /\ codec.declared = 1048577
    /\ codec.gives = 3
    /\ codec.calls # <<>>
    /\ codec.calls[1].held = 3
    /\ codec.calls[1].result = "Err"

\* C28: for frames made by encode_packet and handed over in any chunks,
\* decode_packet of either codec answers "need more" and takes nothing as
\* long as the buffer does not hold the whole of the next frame, an empty
\* buffer and a part of a length prefix included, and never an error;
\* otherwise it returns the next packet encoded and takes exactly the bytes
\* of its frame.
C28_NeedMoreOrNextPacket ==
    codec.declared < 0 =>
        \A c \in 1..Len(codec.calls) :
            IF Complete(c)
            THEN /\ codec.calls[c].result = "Some"
                 /\ codec.calls[c].packet = <<codec.sent[Somes(c) + 1]>>
                 /\ codec.calls[c].drained = Len(codec.frames[Somes(c) + 1])
            ELSE /\ codec.calls[c].result = "None"
                 /\ codec.calls[c].drained = 0

\* The frame of call c's packet as the writer's codec encodes it.
SentFrame(c) == OptimizedEncodePacket(sendHandle.calls[c].packet)

Returned(c) ==
    c \in DOMAIN sendHandle.calls /\ sendHandle.calls[c].result # "sent"

\* C29: send_packet returns Ok only if the whole frame of its packet is on
\* the stream; once a write has failed no call of the handle or its clone is
\* left without an error (the failing call, the calls queued and the calls
\* made afterwards), and every call returns.
C29_SendCompletes ==
    /\ [](\A c \in DOMAIN sendHandle.calls :
             sendHandle.calls[c].result = "Ok" =>
                 Take(Drop(sendHandle.wire, sendHandle.calls[c].at), Len(SentFrame(c)))
                     = SentFrame(c))
    /\ [](sendHandle.receiver = "dropped" =>
             \A c \in DOMAIN sendHandle.calls :
                 sendHandle.calls[c].result \in {"Ok", "Err"}
                 /\ (sendHandle.calls[c].result = "Ok" => sendHandle.calls[c].at >= 0))
    /\ \A c \in Calls : (c \in DOMAIN sendHandle.calls) ~> Returned(c)


\* The packets among the first n results of recv_packet, in order.
RECURSIVE Received(_)
Received(n) ==
    IF n = 0 THEN <<>>
    ELSE Received(n - 1) \o recvHandle.returned[n].packet

\* C30: the results of recv_packet are the peer's packets in order, None
\* only after all of them when the peer has finished the stream or after an
\* error, nothing but None after a None or an error, and an error only
\* when a read failed or the peer wrote a malformed frame.
C30_RecvResults ==
    LET R == recvHandle.returned
    IN /\ Received(Len(R)) = Take(recvHandle.sent, Len(Received(Len(R))))
       /\ \A i \in 1..Len(R) :
             /\ R[i].result # "Some" => \A j \in (i + 1)..Len(R) : R[j].result = "None"
             /\ R[i].result = "Err" => recvHandle.reset \/ recvHandle.garbled
             /\ R[i].result = "None" =>
                   \/ \E j \in 1..(i - 1) : R[j].result = "Err"
                   \/ recvHandle.fin /\ Received(i) = recvHandle.sent


\* C31: in both codecs a decode_packet that has the whole of a frame whose
\* compressed data holds more than 1 MiB returns an error and leaves the
\* buffer as it is; it returns no packet.
C31_InflatedLimit ==
    \A c \in 1..Len(codec.calls) :
        (codec.inflates > 1048576
         /\ codec.calls[c].held = var_int_size(codec.declared) + codec.declared) =>
            codec.calls[c].result = "Err" /\ codec.calls[c].drained = 0


\* C35: the position decoded from the packed value of (x, y, z) is
\* (x, y, z), for x and z of 26 bits and y of 12 bits, negative values
\* included.
C35_BlockPositionRoundTrip ==
    block.decoded # <<>> => block.decoded[1] = block.position


\* The packets that the first n calls of decode_packet returned.
RECURSIVE EndpointDecoded(_)
EndpointDecoded(n) ==
    IF n = 0 THEN 0
    ELSE EndpointDecoded(n - 1) + (IF endpoint.calls[n].result = "Some" THEN 1 ELSE 0)

\* The frames of the first n calls of encode_packet, one after the other.
RECURSIVE EndpointWritten(_)
EndpointWritten(n) ==
    IF n = 0 THEN <<>> ELSE EndpointWritten(n - 1) \o endpoint.written[n].frame

\* C32: switch_state keeps the read buffer, the encryption state (key and
\* position of both ciphers) and the compression threshold of both codecs;
\* a frame that is wholly held is decoded as the packet that was sent, in
\* the state the endpoint is in, bytes buffered before the switch
\* included; and the remote reads the frames written in every state with
\* the cipher it enabled once.
C32_SwitchStateKeeps ==
    /\ \A i \in 1..Len(endpoint.switches) :
           endpoint.switches[i].after = endpoint.switches[i].before
    /\ \A c \in 1..Len(endpoint.calls) :
           LET k == EndpointDecoded(c - 1) + 1
               call == endpoint.calls[c]
           IN /\ call.result = "Some" =>
                    k <= Len(endpoint.sent) /\ call.packet[1].id = endpoint.sent[k].packet.id
                    /\ call.packet[1].data = endpoint.sent[k].packet.data
              /\ (k <= Len(endpoint.sent) /\ call.held >= endpoint.sent[k].size
                  /\ endpoint.sent[k].packet.id \in Catalog(call.state)) =>
                    call.result = "Some"
    /\ endpoint.remote.plain = EndpointWritten(Len(endpoint.written))

\* An encrypting endpoint switched with bytes in its read buffer, and a
\* later decode_packet in the new state returned a packet.
C32_SwitchedWithBytes ==
    \E i \in 1..Len(endpoint.switches), c \in 1..Len(endpoint.calls) :
        /\ endpoint.switches[i].before.recv_codec.read_buffer # <<>>
        /\ endpoint.switches[i].before.recv_codec.encryption_state # <<>>
        /\ endpoint.switches[i].before.recv_codec.compression_state # 0
        /\ c > endpoint.switches[i].decoded
        /\ endpoint.calls[c].state # "Login"
        /\ endpoint.calls[c].result = "Some"


\* How many of the client's control messages so far are m.
ClientSent(m) == Cardinality({i \in 1..Len(ctl.log) : ctl.log[i] = m})

\* C33: the client's first control message is ConnectTo and it is the only
\* ConnectTo; EnableTerminalEncryption is sent at most once, and only with
\* a key the host has supplied; and the Login handler that is handed a
\* second EncryptionResponse ends with an error, after which the client
\* sends no control message.
C33_ControlMessagesOnce ==
    /\ [](/\ ClientSent("ConnectTo") = (IF cl.pc = "start" THEN 0 ELSE 1)
          /\ (ctl.log # <<>>) => (ctl.log[1] = "ConnectTo")
          /\ ClientSent("EnableTerminalEncryption") <= 1
          /\ (ClientSent("EnableTerminalEncryption") = 1) => (env.keySet /\ cl.keyTaken))
    /\ [][((cl.pc = "drain" /\ cl.reason = "EnableEncryption" /\ cl.keyTaken
             /\ cl'.pc # "drain") => (cl'.pc = "error"))
          /\ ((cl.pc \in {"error", "dropped"})
                 => (cl'.pc \in {"error", "dropped"} /\ ctl'.log = ctl.log))]_vars

\* The game client sent a second EncryptionResponse after the key went to
\* the gateway, and the client session ended with an error.
C33_SecondEncryptionResponse ==
    /\ cl.pc = "error" /\ cl.keyTaken /\ cl.reason = "EnableEncryption"
    /\ ctl.log = <<"ConnectTo", "EnableTerminalEncryption">>


\* C34: a send_packet of the sequence transport whose datagram is too
\* large returns without an error, and the outbound task goes on: no call
\* gets an error, and the datagrams of the calls that have returned and
\* fit the limit went out.
C34_TooLargeDroppedSilently ==
    /\ seqHandle.task = "running"
    /\ \A c \in 1..Len(seqHandle.calls) :
           /\ seqHandle.calls[c].result # "Err"
           /\ (seqHandle.calls[c].result = "Ok"
               /\ seqHandle.calls[c].size <= DatagramLimit) =>
                  \E d \in 1..Len(seqHandle.datagrams) : seqHandle.datagrams[d] = c


\* The frame of forwarder t's packet, and the key of the endpoint's cipher.
TcpFrame(t) == VanillaEncodePacket([id |-> t, data |-> <<t, 0>>], 0)
TcpKey == CHOOSE key \in EncryptionKeys : TRUE

\* The encryptor's register after the first n frames went through it.
RECURSIVE EncryptorAfter(_)
EncryptorAfter(n) ==
    IF n = 0 THEN TcpKey
    ELSE RegisterAfter(EncryptorAfter(n - 1),
                       Encrypted(TcpKey, EncryptorAfter(n - 1), TcpFrame(encoded[n])))

\* The bytes encode_packet returned to forwarder t.
TcpCipher(t) == Encrypted(TcpKey, EncryptorAfter(Pos(encoded, t) - 1), TcpFrame(t))

\* The bytes of the first n writes to the socket, and their frames.
RECURSIVE SocketBytes(_)
SocketBytes(n) ==
    IF n = 0 THEN <<>> ELSE SocketBytes(n - 1) \o TcpCipher(tcpOut[n])

RECURSIVE SocketFrames(_)
SocketFrames(n) ==
    IF n = 0 THEN <<>> ELSE SocketFrames(n - 1) \o TcpFrame(tcpOut[n])

\* C36: the frames of concurrent send_packet calls on the TCP endpoint are
\* written in the order they went through the encryptor, and while no
\* write has failed the destination's decryptor gives back, from the bytes
\* on the socket, the frames whole and in that order.
C36_WrittenInCipherOrder ==
    /\ \A i \in 1..Len(tcpOut) : \A j \in 1..Len(tcpOut) :
           i < j => Pos(encoded, tcpOut[i]) < Pos(encoded, tcpOut[j])
    /\ (\A t \in Failed : tasks[t].dir # "toTcp") =>
           /\ tcpOut = Take(encoded, Len(tcpOut))
           /\ Decrypted(TcpKey, TcpKey, SocketBytes(Len(tcpOut)))
                  = SocketFrames(Len(tcpOut))

\* Two forwarders were encoded in the reverse of the order they were
\* spawned in, and both frames are on the socket.
C36_Witness ==
    \E i \in 1..Len(tcpOut) : \E j \in 1..Len(tcpOut) :
        i < j /\ tcpOut[i] > tcpOut[j]


\* C37: whatever the destination server and the client send, the gateway
\* never comes to call enable_compression or enable_encryption on an
\* endpoint that has compression or a cipher already.
C37_NeverEnabledTwice == gw.pc # "panic"


\* The frames of single-stream states that a peer wrote to a stream which
\* the other peer accepted and has dropped at a state switch.
LostAtSwitch(strs, peer) ==
    {<<i, n>> \in (1..Len(strs)) \X (1..MaxFrames) :
        /\ i <= peer.acc /\ i \notin peer.recv
        /\ strs[i].state \in SingleStates
        /\ n <= Len(strs[i].buf)}

\* C38: no frame sent on a stream of a single-stream state is left on it
\* once the receiving peer has switched state and dropped the stream.
C38_NothingLostAtSwitch ==
    /\ LostAtSwitch(gStreams, cl) = {}
    /\ LostAtSwitch(cStreams, gw) = {}


\* C39: with datagrams arriving in order, no datagram sent on a key after
\* the sender's sequence of that key was created anew (counter back at 0)
\* is discarded by the receiver.
C39_DeliveredAfterRestart ==
    \A d \in seq.dropped : d.restarts = 0

\* C40: in Play state, once the remote has finished a stream after its last
\* frame, no recv_packet returns an error (no read and no datagram fails
\* here), and the packets of every stream and the datagrams are still where
\* the receiver returns them from, in order and each once.
C40_EndOfStreamIsQuiet == (rcv.fin # {}) => (Conserved /\ ~Errored)


================================================================
